---------------------------- MODULE Spec2Model ----------------------------
(***************************************************************************)
(* Model of the bulk-data transport of the MX29F1615 programmer: the host  *)
(* utility (src/sw/mxprog.c) and the firmware (src/fw/prom_access.c)       *)
(* exchanging CRC-checkpointed chunks over a byte-oriented serial link.    *)
(*                                                                         *)
(* A 32-bit value (uint32_t) is a tuple of four bytes, most significant    *)
(* first, because TLC's integers are 32-bit signed.  Shifts and masks of   *)
(* the C code are therefore byte moves that drop what leaves the word.     *)
(***************************************************************************)
EXTENDS Integers, Sequences, FiniteSets, TLC

Byte == 0..255

\* src/sw/mxprog.c:120 and src/fw/prom_access.c:22
DATA_CRC_INTERVAL == 256

\* rc_t of the host (src/sw/mxprog.c:134-138)
RC_SUCCESS == 0
RC_FAILURE == 1
RC_TIMEOUT == 2

\* rc_t of the firmware (src/fw/cmdline.h:30-39)
FW_RC_SUCCESS == 0
FW_RC_FAILURE == 1
FW_RC_TIMEOUT == 7

Min(a, b) == IF a < b THEN a ELSE b

(***************************************************************************)
(* CRC-32 engine (src/sw/mxprog.c:179-272)                                 *)
(***************************************************************************)

\* Bitwise exclusive or of two bytes (the C operator ^ on 8-bit operands),
\* bit by bit, and tabulated once.
RECURSIVE XorBits(_, _)
XorBits(a, b) ==
    IF a = 0 THEN b
    ELSE IF b = 0 THEN a
    ELSE ((a + b) % 2) + 2 * XorBits(a \div 2, b \div 2)

XorTable == [a \in Byte |-> [b \in Byte |-> XorBits(a, b)]]

BXor(a, b) == XorTable[a][b]

\* The table of the normal form of polynomial 0x04C11DB7; entry i+1 of the
\* tuple is crc32_table[i], as <<bits 31..24, 23..16, 15..8, 7..0>>.
crc32_table == <<
    <<0,0,0,0>>, <<4,193,29,183>>, <<9,130,59,110>>, <<13,67,38,217>>,
    <<19,4,118,220>>, <<23,197,107,107>>, <<26,134,77,178>>, <<30,71,80,5>>,
    <<38,8,237,184>>, <<34,201,240,15>>, <<47,138,214,214>>, <<43,75,203,97>>,
    <<53,12,155,100>>, <<49,205,134,211>>, <<60,142,160,10>>, <<56,79,189,189>>,
    <<76,17,219,112>>, <<72,208,198,199>>, <<69,147,224,30>>, <<65,82,253,169>>,
    <<95,21,173,172>>, <<91,212,176,27>>, <<86,151,150,194>>, <<82,86,139,117>>,
    <<106,25,54,200>>, <<110,216,43,127>>, <<99,155,13,166>>, <<103,90,16,17>>,
    <<121,29,64,20>>, <<125,220,93,163>>, <<112,159,123,122>>, <<116,94,102,205>>,
    <<152,35,182,224>>, <<156,226,171,87>>, <<145,161,141,142>>, <<149,96,144,57>>,
    <<139,39,192,60>>, <<143,230,221,139>>, <<130,165,251,82>>, <<134,100,230,229>>,
    <<190,43,91,88>>, <<186,234,70,239>>, <<183,169,96,54>>, <<179,104,125,129>>,
    <<173,47,45,132>>, <<169,238,48,51>>, <<164,173,22,234>>, <<160,108,11,93>>,
    <<212,50,109,144>>, <<208,243,112,39>>, <<221,176,86,254>>, <<217,113,75,73>>,
    <<199,54,27,76>>, <<195,247,6,251>>, <<206,180,32,34>>, <<202,117,61,149>>,
    <<242,58,128,40>>, <<246,251,157,159>>, <<251,184,187,70>>, <<255,121,166,241>>,
    <<225,62,246,244>>, <<229,255,235,67>>, <<232,188,205,154>>, <<236,125,208,45>>,
    <<52,134,112,119>>, <<48,71,109,192>>, <<61,4,75,25>>, <<57,197,86,174>>,
    <<39,130,6,171>>, <<35,67,27,28>>, <<46,0,61,197>>, <<42,193,32,114>>,
    <<18,142,157,207>>, <<22,79,128,120>>, <<27,12,166,161>>, <<31,205,187,22>>,
    <<1,138,235,19>>, <<5,75,246,164>>, <<8,8,208,125>>, <<12,201,205,202>>,
    <<120,151,171,7>>, <<124,86,182,176>>, <<113,21,144,105>>, <<117,212,141,222>>,
    <<107,147,221,219>>, <<111,82,192,108>>, <<98,17,230,181>>, <<102,208,251,2>>,
    <<94,159,70,191>>, <<90,94,91,8>>, <<87,29,125,209>>, <<83,220,96,102>>,
    <<77,155,48,99>>, <<73,90,45,212>>, <<68,25,11,13>>, <<64,216,22,186>>,
    <<172,165,198,151>>, <<168,100,219,32>>, <<165,39,253,249>>, <<161,230,224,78>>,
    <<191,161,176,75>>, <<187,96,173,252>>, <<182,35,139,37>>, <<178,226,150,146>>,
    <<138,173,43,47>>, <<142,108,54,152>>, <<131,47,16,65>>, <<135,238,13,246>>,
    <<153,169,93,243>>, <<157,104,64,68>>, <<144,43,102,157>>, <<148,234,123,42>>,
    <<224,180,29,231>>, <<228,117,0,80>>, <<233,54,38,137>>, <<237,247,59,62>>,
    <<243,176,107,59>>, <<247,113,118,140>>, <<250,50,80,85>>, <<254,243,77,226>>,
    <<198,188,240,95>>, <<194,125,237,232>>, <<207,62,203,49>>, <<203,255,214,134>>,
    <<213,184,134,131>>, <<209,121,155,52>>, <<220,58,189,237>>, <<216,251,160,90>>,
    <<105,12,224,238>>, <<109,205,253,89>>, <<96,142,219,128>>, <<100,79,198,55>>,
    <<122,8,150,50>>, <<126,201,139,133>>, <<115,138,173,92>>, <<119,75,176,235>>,
    <<79,4,13,86>>, <<75,197,16,225>>, <<70,134,54,56>>, <<66,71,43,143>>,
    <<92,0,123,138>>, <<88,193,102,61>>, <<85,130,64,228>>, <<81,67,93,83>>,
    <<37,29,59,158>>, <<33,220,38,41>>, <<44,159,0,240>>, <<40,94,29,71>>,
    <<54,25,77,66>>, <<50,216,80,245>>, <<63,155,118,44>>, <<59,90,107,155>>,
    <<3,21,214,38>>, <<7,212,203,145>>, <<10,151,237,72>>, <<14,86,240,255>>,
    <<16,17,160,250>>, <<20,208,189,77>>, <<25,147,155,148>>, <<29,82,134,35>>,
    <<241,47,86,14>>, <<245,238,75,185>>, <<248,173,109,96>>, <<252,108,112,215>>,
    <<226,43,32,210>>, <<230,234,61,101>>, <<235,169,27,188>>, <<239,104,6,11>>,
    <<215,39,187,182>>, <<211,230,166,1>>, <<222,165,128,216>>, <<218,100,157,111>>,
    <<196,35,205,106>>, <<192,226,208,221>>, <<205,161,246,4>>, <<201,96,235,179>>,
    <<189,62,141,126>>, <<185,255,144,201>>, <<180,188,182,16>>, <<176,125,171,167>>,
    <<174,58,251,162>>, <<170,251,230,21>>, <<167,184,192,204>>, <<163,121,221,123>>,
    <<155,54,96,198>>, <<159,247,125,113>>, <<146,180,91,168>>, <<150,117,70,31>>,
    <<136,50,22,26>>, <<140,243,11,173>>, <<129,176,45,116>>, <<133,113,48,195>>,
    <<93,138,144,153>>, <<89,75,141,46>>, <<84,8,171,247>>, <<80,201,182,64>>,
    <<78,142,230,69>>, <<74,79,251,242>>, <<71,12,221,43>>, <<67,205,192,156>>,
    <<123,130,125,33>>, <<127,67,96,150>>, <<114,0,70,79>>, <<118,193,91,248>>,
    <<104,134,11,253>>, <<108,71,22,74>>, <<97,4,48,147>>, <<101,197,45,36>>,
    <<17,155,75,233>>, <<21,90,86,94>>, <<24,25,112,135>>, <<28,216,109,48>>,
    <<2,159,61,53>>, <<6,94,32,130>>, <<11,29,6,91>>, <<15,220,27,236>>,
    <<55,147,166,81>>, <<51,82,187,230>>, <<62,17,157,63>>, <<58,208,128,136>>,
    <<36,151,208,141>>, <<32,86,205,58>>, <<45,21,235,227>>, <<41,212,246,84>>,
    <<197,169,38,121>>, <<193,104,59,206>>, <<204,43,29,23>>, <<200,234,0,160>>,
    <<214,173,80,165>>, <<210,108,77,18>>, <<223,47,107,203>>, <<219,238,118,124>>,
    <<227,161,203,193>>, <<231,96,214,118>>, <<234,35,240,175>>, <<238,226,237,24>>,
    <<240,165,189,29>>, <<244,100,160,170>>, <<249,39,134,115>>, <<253,230,155,196>>,
    <<137,184,253,9>>, <<141,121,224,190>>, <<128,58,198,103>>, <<132,251,219,208>>,
    <<154,188,139,213>>, <<158,125,150,98>>, <<147,62,176,187>>, <<151,255,173,12>>,
    <<175,176,16,177>>, <<171,113,13,6>>, <<166,50,43,223>>, <<162,243,54,104>>,
    <<188,180,102,109>>, <<184,117,123,218>>, <<181,54,93,3>>, <<177,247,64,180>>
>>

\* A loop body that drops the lowest bit of the data byte.
crc32_byte_coarse(crc, b) ==
    LET t == crc32_table[BXor(crc[1], b - (b % 2)) + 1]
    IN  <<BXor(crc[2], t[1]), BXor(crc[3], t[2]), BXor(crc[4], t[3]), t[4]>>

\* One pass of the loop body:
\*   crc = (crc << 8) ^ crc32_table[(crc >> 24) ^ *(ptr++)];
\* (crc and the table entry are each evaluated once, as bound values.)
crc32_byte(crc, b) ==
    CHOOSE r \in
        UNION { { <<BXor(c[2], t[1]), BXor(c[3], t[2]), BXor(c[4], t[3]), t[4]>>
                  : t \in {crc32_table[BXor(c[1], b) + 1]} }
                : c \in {crc} } : TRUE

\* The loop  while (len--) crc = ...  over buf[lo..hi], bytes in ascending
\* order.  The range is split in halves only to keep the evaluation depth
\* logarithmic; the bytes are still folded left to right.
RECURSIVE crc32_loop(_, _, _, _)
crc32_loop(crc, buf, lo, hi) ==
    IF lo > hi THEN crc
    ELSE IF lo = hi THEN crc32_byte(crc, buf[lo])
    ELSE CHOOSE r \in
            { crc32_loop(left, buf, (lo + hi) \div 2 + 1, hi)
              : left \in {crc32_loop(crc, buf, lo, (lo + hi) \div 2)} } : TRUE

\* A CRC of the bytes of one call only, started afresh whatever the seed.
crc32_fresh(crc, buf) == crc32_loop(<<0, 0, 0, 0>>, buf, 1, Len(buf))
\* uint32_t crc32(uint32_t crc, const void *buf, size_t len)
crc32(crc, buf) ==
    CHOOSE r \in { crc32_loop(crc, b, 1, Len(b)) : b \in {buf} } : TRUE

\* The CRC-32 of the firmware (src/fw/crc32.h declares it; its source file
\* is not part of the tree).  Section 4.2 of the specification requires it
\* to be bit-identical to the host's.
fw_crc32(crc, buf) == crc32(crc, buf)

\* prom_write_binary folds each byte as it arrives:
\*   *(ptr++) = ch;  crc = crc32(crc, ptr - 1, 1);
\* for the bytes data[lo..hi] in order (halved like crc32_loop).
RECURSIVE crc32_each(_, _, _, _)
crc32_each(crc, data, lo, hi) ==
    IF lo > hi THEN crc
    ELSE IF lo = hi THEN fw_crc32(crc, <<data[lo]>>)
    ELSE CHOOSE r \in
            { crc32_each(left, data, (lo + hi) \div 2 + 1, hi)
              : left \in {crc32_each(crc, data, lo, (lo + hi) \div 2)} } : TRUE

\* The seed of a fresh transfer: uint32_t crc = 0
CrcZero == <<0, 0, 0, 0>>

\* A uint32_t as it travels: puts_binary(&crc, sizeof (crc)) and
\* send_ll_bin((uint8_t *)&crc, sizeof (crc)) emit the object representation,
\* which is least significant byte first on both (little-endian) peers.
CrcToWire(crc) == <<crc[4], crc[3], crc[2], crc[1]>>
\* A receiver that assembles the field most significant byte first.
CrcFromWireBE(w) == <<w[1], w[2], w[3], w[4]>>
\* receive_ll(&compcrc, 4, ...) / ((uint8_t *)&compcrc)[pos] = ch
CrcFromWire(w) == <<w[4], w[3], w[2], w[1]>>

\* 0x20202020: four ASCII spaces in the CRC position
SENTINEL == <<32, 32, 32, 32>>
\* check_rc: printf("Receive timeout waiting for rc at 0x%x\n", pos)
TXT_rc_timeout ==
    <<82, 101, 99, 101, 105, 118, 101, 32, 116, 105, 109, 101, 111, 117, 116, 32, 119, 97, 105, 116, 105, 110, 103, 32, 102, 111, 114, 32, 114, 99, 32, 97, 116, 32, 48, 120, 10>>
\* check_rc: printf("Remote sent error %d at 0x%x\n", ch, pos)
TXT_rc_error ==
    <<82, 101, 109, 111, 116, 101, 32, 115, 101, 110, 116, 32, 101, 114, 114, 111, 114, 32, 10>>
\* check_crc: printf("Receive timeout waiting for CRC %08lx at 0x%x\n", ...)
TXT_crc_timeout ==
    <<82, 101, 99, 101, 105, 118, 101, 32, 116, 105, 109, 101, 111, 117, 116, 32, 119, 97, 105, 116, 105, 110, 103, 32, 102, 111, 114, 32, 67, 82, 67, 32, 10>>
\* check_crc: printf("Received CRC %08lx doesn't match %08lx at 0x%x-0x%x\n", ...)
TXT_crc_mismatch ==
    <<82, 101, 99, 101, 105, 118, 101, 100, 32, 67, 82, 67, 32, 10>>
\* prom_write_binary: printf("Data receive timeout at %lx\n", addr + pos)
TXT_data_timeout ==
    <<68, 97, 116, 97, 32, 114, 101, 99, 101, 105, 118, 101, 32, 116, 105, 109, 101, 111, 117, 116, 32, 97, 116, 32, 10>>
\* prom_read_binary: printf("Status send timeout at %lx\n", ...) and its two siblings
TXT_send_timeout ==
    <<83, 116, 97, 116, 117, 115, 32, 115, 101, 110, 100, 32, 116, 105, 109, 101, 111, 117, 116, 32, 97, 116, 32, 10>>
\* cmd_prom: printf("FAILURE %d\n", rc)
TXT_failure ==
    <<70, 65, 73, 76, 85, 82, 69, 32, 10>>

(***************************************************************************)
(* Bounds of the model and the inputs of a transfer                        *)
(***************************************************************************)

\* ARRAY_SIZE(cap_pos) of send_ll_crc (src/sw/mxprog.c:1104)
HOST_CAP == 2
\* ARRAY_SIZE(cap_pos) of prom_read_binary (src/fw/prom_access.c:195)
DEV_CAP == 4
\* sizeof (buf) of prom_write_binary (src/fw/prom_access.c:285)
DEV_WBUF == 128

\* The longest transfer overruns the window of its sender by MaxExtra
\* checkpoint intervals and a byte.
MaxExtra == 1

\* The window of the sender of an operation's data.
Cap(op) == IF op = "read" THEN DEV_CAP ELSE HOST_CAP

\* Transfer lengths: none, one byte, one checkpoint interval less and more
\* a byte, the 1000-byte scenario of a read, and the longest.
Lens(op) ==
    {0, 1, DATA_CRC_INTERVAL - 1, DATA_CRC_INTERVAL, DATA_CRC_INTERVAL + 1,
     (Cap(op) + MaxExtra) * DATA_CRC_INTERVAL + 1}
    \cup (IF op = "read" THEN {1000} ELSE {})

\* Start addresses of a write: the alignments relative to the 128-byte
\* buffer of prom_write_binary that change where its buffers end.  A read
\* does not depend on the alignment.
Addrs(op) == IF op = "read" THEN {200} ELSE {0, 1, DEV_WBUF - 1, 200}

\* The byte of the source image (EEPROM content for a read, file content
\* for a write) at offset i.
SrcByte(i) == (i * 7 + (i \div 256) * 13 + 3) % 256

\* The n bytes of the source image from offset i on.
SrcBytes(i, n) == [k \in 1..n |-> SrcByte(i + k - 1)]

(***************************************************************************)
(* State                                                                   *)
(***************************************************************************)
VARIABLES
    inp,    \* the command: [op, addr, len]
    host,   \* locals of receive_ll_crc / send_ll_crc and their caller
    dev,    \* locals of prom_read_binary / prom_write_binary
    d2h,    \* bytes in flight from the programmer to the host
    h2d,    \* bytes in flight from the host to the programmer
    flt,    \* what went wrong on the link or in the backend so far
    hlog,   \* what the host put on / took off the wire, in order
    dlog,   \* what the programmer put on / took off the wire, in order
    prom,   \* the calls of prom_write: <<addr, bytes>>, in order
    rb,     \* a byte ring with its producer and its consumer
    snd,    \* locals of send_ll_bin
    thr,    \* the serial device, dev_fd and the reader and writer threads
    cons,   \* the console input of the firmware
    mx,     \* the EEPROM driver of the firmware
    wft     \* wait_for_text of the host

vars == <<inp, host, dev, d2h, h2d, flt, hlog, dlog, prom, rb, snd, thr, cons,
          mx, wft>>

\* The variables of a transfer.
transfer_vars == <<inp, host, dev, d2h, h2d, flt, hlog, dlog, prom>>

(***************************************************************************)
(* Byte ring buffer (src/sw/mxprog.c:155-160, 306-382: rx_rb, tx_rb;       *)
(* src/fw/uart.c:62-64, 118-155: cons_in_rb).  The three rings have the    *)
(* same code; the model has one, of RingSize slots.                        *)
(***************************************************************************)

\* sizeof (rx_rb), sizeof (tx_rb), sizeof (cons_in_rb), scaled down.
RingSize == 3

\* The number of put calls of a run; the bytes put are 1, 2, 3, ... so that
\* each is told from the others and from the content 0 of a slot never
\* written.
MaxPuts == 5

\* An advance without the wrap.
rb_next_nowrap(i) == i + 1
\* (rx_rb_producer + 1) % sizeof (rx_rb)
rb_next(i) == (i + 1) % RingSize

\* A test that never finds the ring full.
rb_full_never(new_prod, consumer) == FALSE
\* if (new_prod == rx_rb_consumer): the ring is full
rb_full(new_prod, consumer) == new_prod = consumer

\* if (rx_rb_consumer == rx_rb_producer): the ring is empty
rb_empty(consumer, producer) == consumer = producer

\* The ring at program start (static storage is zeroed), nobody in a call.
RbInit ==
    [buf       |-> [i \in 0..(RingSize - 1) |-> 0],
     producer  |-> 0,
     consumer  |-> 0,
     put       |-> [pc |-> "idle", ch |-> 0, idx |-> 0, new_prod |-> 0,
                    ret |-> 0, todo |-> {}],
     get       |-> [pc |-> "idle", ch |-> 0, idx |-> 0, ret |-> 0,
                    todo |-> {}],
     next      |-> 1,
     accepted  |-> <<>>,
     returned  |-> <<>>,
     reordered |-> FALSE]

\* rx_rb_put(ch), line 309: the producer computes new_prod.
rb_put_enter ==
    /\ rb.put.pc = "idle"
    /\ rb.next <= MaxPuts
    /\ rb' = [rb EXCEPT !.put = [pc |-> "check", ch |-> rb.next,
                                 idx |-> rb.producer,
                                 new_prod |-> rb_next(rb.producer),
                                 ret |-> rb.put.ret, todo |-> {}],
                        !.next = rb.next + 1]
    /\ UNCHANGED <<mx, wft, snd, thr, cons, transfer_vars>>

\* Lines 311-312: return (1) when the ring is full.
rb_put_check ==
    /\ rb.put.pc = "check"
    /\ rb' = IF rb_full(rb.put.new_prod, rb.consumer)
             THEN [rb EXCEPT !.put.pc = "idle", !.put.ret = 1]
             ELSE [rb EXCEPT !.put.pc = "store",
                             !.put.todo = {"slot", "cursor"},
                             !.accepted = Append(rb.accepted, rb.put.ch)]
    /\ UNCHANGED <<mx, wft, snd, thr, cons, transfer_vars>>

\* Lines 314-316: the store to the slot and the store to the producer
\* cursor, then return (0).  The two are plain volatile stores of one
\* thread that another thread reads without any synchronisation (a data
\* race): the other thread may see them in either order.
rb_put_store ==
    /\ rb.put.pc = "store"
    /\ \E w \in rb.put.todo :
        LET rest == rb.put.todo \ {w}
            r1   == IF w = "slot"
                    THEN [rb EXCEPT !.buf[rb.put.idx] = rb.put.ch]
                    ELSE [rb EXCEPT !.producer = rb.put.new_prod,
                                    !.reordered = rb.reordered \/ rest # {}]
        IN  rb' = IF rest = {}
                  THEN [r1 EXCEPT !.put.pc = "idle", !.put.ret = 0,
                                  !.put.todo = {}]
                  ELSE [r1 EXCEPT !.put.todo = rest]
    /\ UNCHANGED <<mx, wft, snd, thr, cons, transfer_vars>>

\* rx_rb_get(), lines 333-334: return (-1) when the ring is empty.
rb_get_check ==
    /\ rb.get.pc = "idle"
    /\ rb' = IF rb_empty(rb.consumer, rb.producer)
             THEN [rb EXCEPT !.get.ret = -1]
             ELSE [rb EXCEPT !.get.pc = "take", !.get.idx = rb.consumer,
                             !.get.todo = {"load", "cursor"}]
    /\ UNCHANGED <<mx, wft, snd, thr, cons, transfer_vars>>

\* Lines 336-338: the load of the slot and the store to the consumer
\* cursor, then return (ch).  Unsynchronised like the stores of put: the
\* producer may see the cursor move before the load has taken place.
rb_get_take ==
    /\ rb.get.pc = "take"
    /\ \E w \in rb.get.todo :
        LET rest == rb.get.todo \ {w}
            r1   == IF w = "load"
                    THEN [rb EXCEPT !.get.ch = rb.buf[rb.get.idx]]
                    ELSE [rb EXCEPT !.consumer = rb_next(rb.get.idx),
                                    !.reordered = rb.reordered \/ rest # {}]
        IN  rb' = IF rest = {}
                  THEN [r1 EXCEPT !.get.pc = "idle", !.get.ret = r1.get.ch,
                                  !.get.todo = {},
                                  !.returned = Append(rb.returned, r1.get.ch)]
                  ELSE [r1 EXCEPT !.get.todo = rest]
    /\ UNCHANGED <<mx, wft, snd, thr, cons, transfer_vars>>


(***************************************************************************)
(* send_ll_bin (src/sw/mxprog.c:438-459): the main thread enqueues a block *)
(* in tx_rb, byte by byte, while the writer thread empties the ring.       *)
(***************************************************************************)

\* The longest block handed to send_ll_bin.
MaxSend == 3

\* if (timeout_count++ >= 500), src/sw/mxprog.c:447
SEND_RETRIES == 500

\* The locals at the call: pos = 0, timeout_count = 0.  fails counts the
\* failed calls of tx_rb_put since the last successful one.
SndInit(data) ==
    [pc            |-> "loop",
     data          |-> data,
     pos           |-> 0,
     timeout_count |-> 0,
     fails         |-> 0,
     ret           |-> 0]

\* A limit one attempt short.
SendGivesUpEarly(timeout_count) == timeout_count + 1 >= SEND_RETRIES
\* if (timeout_count++ >= 500): the test sees the value before the
\* increment.
SendGivesUp(timeout_count) == timeout_count >= SEND_RETRIES

\* Lines 444-445: while (pos < len) tx_rb_put(*data) is called; line 458:
\* return (0) when the loop ends.
send_ll_bin_put ==
    /\ snd.pc = "loop"
    /\ IF snd.pos < Len(snd.data)
       THEN /\ rb.put.pc = "idle"
            /\ rb' = [rb EXCEPT !.put = [pc |-> "check",
                                         ch |-> snd.data[snd.pos + 1],
                                         idx |-> rb.producer,
                                         new_prod |-> rb_next(rb.producer),
                                         ret |-> rb.put.ret, todo |-> {}]]
            /\ snd' = [snd EXCEPT !.pc = "put"]
       ELSE /\ snd' = [snd EXCEPT !.pc = "done", !.ret = 0]
            /\ UNCHANGED rb
    /\ UNCHANGED <<mx, wft, thr, cons, transfer_vars>>

\* Lines 445-456: the result of tx_rb_put.  A failure is followed by the
\* 1 ms delay and either return (1) or another attempt on the same byte;
\* a success resets the count and moves on to the next byte.
send_ll_bin_result ==
    /\ snd.pc = "put"
    /\ rb.put.pc = "idle"
    /\ snd' = IF rb.put.ret # 0
              THEN [snd EXCEPT !.pc = IF SendGivesUp(snd.timeout_count)
                                      THEN "done" ELSE "loop",
                               !.ret = IF SendGivesUp(snd.timeout_count)
                                       THEN 1 ELSE snd.ret,
                               !.timeout_count = snd.timeout_count + 1,
                               !.fails = snd.fails + 1]
              ELSE [snd EXCEPT !.pc = "loop", !.timeout_count = 0,
                               !.fails = 0, !.pos = snd.pos + 1]
    /\ UNCHANGED <<mx, wft, rb, thr, cons, transfer_vars>>

(***************************************************************************)
(* The serial device and the two I/O threads of the host                   *)
(* (src/sw/mxprog.c:560-741).  The reader thread moves what read() returns *)
(* into rx_rb and reopens the device when read() fails; the writer thread  *)
(* moves tx_rb into write() calls.  The main thread only puts into tx_rb   *)
(* and gets from rx_rb.  running stays 1 outside terminal mode (it is      *)
(* cleared at line 1757 only), so the tests of running never succeed here. *)
(***************************************************************************)

\* The bytes the main thread enqueues in a run of the threads, the bytes
\* the programmer sends, and the times the device disappears.
MaxTx == 1
MaxRx == 3
MaxCycles == 1

\* The bytes the main thread enqueues in a run that fills the batch of the
\* writer thread: the batch and MaxOver more.
MaxOver == 2

\* char lbuf[64] of th_serial_writer, src/sw/mxprog.c:703
WRITE_BATCH == 64

\* uint8_t buf[64] of th_serial_reader, src/sw/mxprog.c:623
READ_BUF == 64

\* A ring as declared at lines 155-160: zeroed static storage.
RingEmpty ==
    [buf |-> [i \in 0..(RingSize - 1) |-> 0], producer |-> 0, consumer |-> 0]

\* rx_rb_put / tx_rb_put as one step: the return value and the ring.
ring_put(r, ch) ==
    IF rb_full(rb_next(r.producer), r.consumer)
    THEN [ret |-> 1, ring |-> r]
    ELSE [ret |-> 0, ring |-> [r EXCEPT !.buf[r.producer] = ch,
                                        !.producer = rb_next(r.producer)]]

\* rx_rb_get / tx_rb_get as one step: the return value and the ring.
ring_get(r) ==
    IF rb_empty(r.consumer, r.producer)
    THEN [ret |-> -1, ring |-> r]
    ELSE [ret |-> r.buf[r.consumer],
          ring |-> [r EXCEPT !.consumer = rb_next(r.consumer)]]

\* The write() call of the latest pass of the writer thread, when it made
\* one: n bytes passed, after tx_rb_get found the ring empty or not, with
\* no failed attempt since the previous call or not, and the pacing delay
\* slept after it.  n = -1: the pass made no call.
NoWrite == [n |-> -1, empty |-> FALSE, clean |-> TRUE, slept |-> 0]

\* The state after serial_open and create_threads: the device is there and
\* dev_fd is its descriptor (descriptors are numbered by the appearance of
\* the device they were opened on); the reader is about to call read(), the
\* writer has an empty batch.
\*   txn, rxn  the bytes the main thread and the programmer have yet to send
\*   delay     ic_delay, the pacing delay in ms
\*   cycles    the times the device may still disappear
\*   taken     the bytes tx_rb_get has returned to the writer thread
\*   lost      whether one of them has left the batch without having been
\*             accepted by write()
ThrStart(txn, rxn, delay, cycles) ==
    [present  |-> TRUE,
     cycles   |-> cycles,
     taken    |-> <<>>,
     lost     |-> FALSE,
     conn     |-> 1,
     dev_fd   |-> 1,
     line     |-> <<>>,
     rxn      |-> rxn,
     txn      |-> txn,
     txnext   |-> 1,
     ic_delay |-> delay,
     rx       |-> RingEmpty,
     tx       |-> RingEmpty,
     rd       |-> [pc |-> "read", buf |-> <<>>, pos |-> 0, overflow |-> FALSE],
     wr       |-> [lbuf |-> <<>>, pos |-> 0, stalled |-> FALSE],
     last     |-> NoWrite]

\* No thread runs and no device is in use.
ThrInit == ThrStart(0, 0, 0, 0)

\* A descriptor on which read() and write() work: it was opened on the
\* device that is there now.
fd_works(t) == t.present /\ t.dev_fd = t.conn

\* The device disappears (USB unplug); what it had sent and the host had
\* not read is lost.
dev_unplug ==
    /\ thr.present
    /\ thr.cycles > 0
    /\ thr' = [thr EXCEPT !.present = FALSE, !.line = <<>>,
                          !.cycles = thr.cycles - 1]
    /\ UNCHANGED <<mx, wft, snd, cons, rb, transfer_vars>>

\* The device is back and can be opened and configured.
dev_plug ==
    /\ ~thr.present
    /\ thr' = [thr EXCEPT !.present = TRUE, !.conn = thr.conn + 1]
    /\ UNCHANGED <<mx, wft, snd, cons, rb, transfer_vars>>

\* The programmer sends a byte (the bytes are numbered from 100 + rxn
\* downwards).
dev_send ==
    /\ thr.present
    /\ thr.rxn > 0
    /\ thr' = [thr EXCEPT !.line = Append(thr.line, 100 + thr.rxn),
                          !.rxn = thr.rxn - 1]
    /\ UNCHANGED <<mx, wft, snd, cons, rb, transfer_vars>>

\* The main thread calls tx_rb_put with its next byte (the bytes are 1, 2,
\* ...), and tries again later when the ring is full.
main_put ==
    /\ thr.txn > 0
    /\ LET p == ring_put(thr.tx, thr.txnext)
       IN  /\ p.ret = 0
           /\ thr' = [thr EXCEPT !.tx = p.ring, !.txn = thr.txn - 1,
                                 !.txnext = thr.txnext + 1]
    /\ UNCHANGED <<mx, wft, snd, cons, rb, transfer_vars>>

\* The main thread calls rx_rb_get and finds a byte.
main_get ==
    /\ LET g == ring_get(thr.rx)
       IN  /\ g.ret >= 0
           /\ thr' = [thr EXCEPT !.rx = g.ring]
    /\ UNCHANGED <<mx, wft, snd, cons, rb, transfer_vars>>

\* th_serial_reader, lines 636-647 and 673-675: read() blocks while the
\* device has nothing to say and returns up to sizeof (buf) bytes; when it
\* fails or returns 0 the thread enters reopen_dev, which stores -1 in
\* dev_fd and closes the descriptor (lines 572-577).
th_serial_reader_read ==
    /\ thr.rd.pc = "read"
    /\ IF fd_works(thr)
       THEN /\ thr.line # <<>>
            /\ \E len \in {1, Min(Len(thr.line), READ_BUF)} :
                 thr' = [thr EXCEPT !.line = SubSeq(thr.line, len + 1,
                                                    Len(thr.line)),
                                    !.rd.buf = SubSeq(thr.line, 1, len),
                                    !.rd.pos = 0,
                                    !.rd.pc = "put"]
       ELSE thr' = [thr EXCEPT !.dev_fd = -1, !.rd.pc = "reopen"]
    /\ UNCHANGED <<mx, wft, snd, cons, rb, transfer_vars>>

\* Lines 656-666: rx_rb_put(buf[pos]); while it returns 1 the thread waits
\* 1 ms, prints "RX ring buffer overflow" and calls it again.
th_serial_reader_put ==
    /\ thr.rd.pc = "put"
    /\ LET p == ring_put(thr.rx, thr.rd.buf[thr.rd.pos + 1])
       IN  thr' = IF p.ret = 1
                  THEN [thr EXCEPT !.rd.overflow = TRUE]
                  ELSE [thr EXCEPT !.rx = p.ring,
                                   !.rd.pos = thr.rd.pos + 1,
                                   !.rd.pc = IF thr.rd.pos + 1 < Len(thr.rd.buf)
                                             THEN "put" ELSE "read"]
    /\ UNCHANGED <<mx, wft, snd, cons, rb, transfer_vars>>

\* A reopen_dev that never gets the device back.
reopen_dev_never ==
    /\ thr.rd.pc = "reopen"
    /\ UNCHANGED vars

\* A reopen_dev that also starts the rings afresh.
reopen_dev_reset ==
    /\ thr.rd.pc = "reopen"
    /\ thr' = IF thr.present
              THEN [thr EXCEPT !.dev_fd = thr.conn, !.rd.pc = "read",
                               !.rx = RingEmpty, !.tx = RingEmpty]
              ELSE thr
    /\ UNCHANGED <<mx, wft, snd, cons, rb, transfer_vars>>

\* reopen_dev, lines 584-595: every 400 ms open() the device path, and
\* config_dev() what open() returned; both succeed when the device is
\* there, and the new descriptor is then stored in dev_fd.
reopen_dev ==
    /\ thr.rd.pc = "reopen"
    /\ thr' = IF thr.present
              THEN [thr EXCEPT !.dev_fd = thr.conn, !.rd.pc = "read"]
              ELSE thr
    /\ UNCHANGED <<mx, wft, snd, cons, rb, transfer_vars>>

\* A writer that hands its batch to write() in every pass.
WriterFlushAlways(ch, pos, delay) == TRUE
\* Lines 709-710: whether the batch goes to write() in this pass.
WriterFlush(ch, pos, delay) ==
    (ch < 0 /\ pos > 0) \/ pos >= WRITE_BATCH \/ delay # 0

\* if (pos >= sizeof (lbuf)) pos--;  lines 714-715 and 720-721
WriterRetreat(w) ==
    IF w.pos >= WRITE_BATCH
    THEN [w EXCEPT !.pos = w.pos - 1, !.lbuf = SubSeq(w.lbuf, 1, w.pos - 1),
                   !.stalled = TRUE]
    ELSE [w EXCEPT !.stalled = TRUE]

\* th_serial_writer, one pass of while (1), lines 705-739: take a byte from
\* tx_rb if there is one; when the batch is due, wait 500 ms if dev_fd is
\* -1 or write() fails, else write() has accepted count bytes of the batch
\* (the descriptor is non-blocking, so count may be less than pos; line 735
\* prints a message then), the pacing delay follows and pos = 0.
th_serial_writer ==
    LET g    == ring_get(thr.tx)
        ch   == g.ret
        w1   == IF ch >= 0
                THEN [thr.wr EXCEPT !.lbuf = Append(thr.wr.lbuf, ch),
                                    !.pos = thr.wr.pos + 1]
                ELSE thr.wr
        t1   == [thr EXCEPT !.tx = g.ring,
                            !.taken = IF ch >= 0 THEN Append(thr.taken, ch)
                                      ELSE thr.taken]
    IN  /\ IF WriterFlush(ch, w1.pos, thr.ic_delay)
           THEN IF thr.dev_fd = -1 \/ ~fd_works(thr)
                THEN thr' = [t1 EXCEPT
                               !.wr = WriterRetreat(w1),
                               !.lost = thr.lost \/
                                   WriterRetreat(w1).lbuf # w1.lbuf,
                               !.last = NoWrite]
                ELSE \E count \in {w1.pos} \cup
                         (IF w1.pos > 0 THEN {w1.pos - 1} ELSE {}) :
                        thr' = [t1 EXCEPT
                                  !.wr = [lbuf |-> <<>>, pos |-> 0,
                                          stalled |-> FALSE],
                                  !.lost = thr.lost \/
                                      SubSeq(w1.lbuf, 1, count) # w1.lbuf,
                                  !.last = [n |-> w1.pos, empty |-> ch < 0,
                                            clean |-> ~w1.stalled,
                                            slept |-> thr.ic_delay]]
           ELSE thr' = [t1 EXCEPT !.wr = w1, !.last = NoWrite]
        /\ UNCHANGED <<mx, wft, snd, cons, rb, transfer_vars>>

(***************************************************************************)
(* The console input of the firmware, src/fw/uart.c and src/fw/usb.c.      *)
(* One ring, cons_in_rb, is filled by two producers: CONSOLE_IRQHandler,   *)
(* the receive interrupt of the UART (priority 0, the highest), and        *)
(* cdcacm_rx_cb, which usbd_poll calls from the USB interrupt (priority    *)
(* 0x40) or, while that interrupt is not in use, from usb_poll in the main *)
(* loop.  The UART interrupt can therefore come in wherever cdcacm_rx_cb   *)
(* runs with interrupts enabled; cons_rb_put disables them around its two  *)
(* stores only.  getchar, in the main loop, is the one consumer.           *)
(***************************************************************************)

\* The bytes that arrive on the UART and over USB in a run of the console.
MaxUart == 2
MaxUsb == 2

\* uint8_t cons_in_rb[1024], src/fw/uart.c:64
CONS_IN_RB_SIZE == 1024

\* src/fw/uart.h:73-74
SOURCE_UART == 0
SOURCE_USB == 1

\* char buf[64] of cdcacm_rx_cb, src/fw/usb.c:744
USB_PACKET == 64

\* No call of getchar has returned yet.
NoGetchar == [called |-> FALSE, empty |-> FALSE, ret |-> 0]

\* The console after uart_init and usb_startup: the ring is zeroed static
\* storage (uart.c:62-64), cdcacm_rx_cb is not running.
\*   uartn, usbn   the bytes yet to arrive on the UART (1, 2, ...) and over
\*                 USB (11, 12, ...)
\*   ep            the packet in the OUT endpoint
\*   cb            cdcacm_rx_cb: where it is (pc), its buf and pos, and the
\*                 new_prod of the cons_rb_put it is in
\*   stored        the bytes for which cons_rb_put did its stores, in the
\*                 order of the stores
\*   get           "take" while getchar is inside cons_rb_get, past the
\*                 test for an empty ring
\*   echoed        whether a '%' was sent for a byte dropped at a full ring
\*   got           the bytes getchar returned; gc: its latest call
\*   overlap       the UART interrupt ran cons_rb_put while cdcacm_rx_cb
\*                 was inside cons_rb_put
\*   usb_console_active  usb.c: set by cdcacm_rx_cb when a packet came in
\*   out           the output of a transfer through puts_binary:
\*     todo, arrived  the calls yet to make; the transport the command
\*                    of the transfer arrived on
\*     pc, via        "send" inside usb_puts_wait; the transport of the
\*                    latest call
\*     data, sent     the bytes of the latest call, and those of them
\*                    handed to the USB IN endpoint, as often as they were
\*     tries, ret     the failed CDC_Transmit_FS calls of the latest
\*                    usb_puts_wait, and its return value
\*     uart_tx, usb_tx  everything put out on the UART and handed to the
\*                    USB IN endpoint
ConsStart(uartn, usbn) ==
    [ring     |-> RingEmpty,
     last_input_source |-> 0,
     uartn    |-> uartn,
     uartnext |-> 1,
     usbn     |-> usbn,
     usbnext  |-> 11,
     ep       |-> <<>>,
     cb       |-> [pc |-> "idle", buf |-> <<>>, pos |-> 0, new_prod |-> 0],
     get      |-> "idle",
     echoed   |-> 0,
     stored   |-> <<>>,
     got      |-> <<>>,
     gc       |-> NoGetchar,
     overlap  |-> FALSE,
     usb_console_active |-> FALSE,
     out      |-> [todo |-> 0, arrived |-> 0, pc |-> "idle", via |-> "none",
                   data |-> <<>>, sent |-> <<>>, tries |-> 0, ret |-> 0,
                   uart_tx |-> <<>>, usb_tx |-> <<>>]]

\* The console with nothing to receive.
ConsInit == ConsStart(0, 0)

\* A cons_rb_put that stores the byte whether the ring is full or not.
cons_rb_put_overwrite(r, ch) ==
    [ret |-> 0, ring |-> [r EXCEPT !.buf[r.producer] = ch,
                                   !.producer = rb_next(r.producer)]]

\* cons_rb_put, uart.c:118-132, run without interruption: ret = 1 when
\* the byte was dropped at a full ring (a '%' goes to the UART), else the
\* byte is stored at the producer cursor and the cursor advanced.
cons_rb_put(r, ch) ==
    IF rb_next(r.producer) = r.consumer
    THEN [ret |-> 1, ring |-> r]
    ELSE [ret |-> 0, ring |-> [r EXCEPT !.buf[r.producer] = ch,
                                        !.producer = rb_next(r.producer)]]

\* The host sends a packet of up to 64 bytes to the OUT endpoint.
usb_host_send ==
    /\ cons.ep = <<>>
    /\ cons.usbn > 0
    /\ \E n \in 1..Min(cons.usbn, USB_PACKET) :
         cons' = [cons EXCEPT !.ep = [i \in 1..n |-> cons.usbnext + i - 1],
                              !.usbn = cons.usbn - n,
                              !.usbnext = cons.usbnext + n]
    /\ UNCHANGED <<mx, wft, snd, thr, rb, transfer_vars>>

\* cdcacm_rx_cb, usb.c:742-753, up to its loop: usbd_ep_read_packet
\* copies the packet into buf.
cdcacm_rx_cb ==
    /\ cons.cb.pc = "idle"
    /\ cons.ep # <<>>
    /\ cons' = [cons EXCEPT !.ep = <<>>,
                            !.usb_console_active = TRUE,
                            !.cb = [pc |-> "put", buf |-> cons.ep, pos |-> 0,
                                    new_prod |-> 0]]
    /\ UNCHANGED <<mx, wft, snd, thr, rb, transfer_vars>>

\* The loop of cdcacm_rx_cb after buf[pos] was put or dropped.
cb_next(cb) ==
    IF cb.pos + 1 < Len(cb.buf)
    THEN [cb EXCEPT !.pos = cb.pos + 1, !.pc = "put"]
    ELSE [pc |-> "idle", buf |-> <<>>, pos |-> 0, new_prod |-> 0]

\* usb_rb_put(buf[pos]) entering cons_rb_put, uart.c:121-126: new_prod is
\* computed from the producer cursor; if it equals the consumer cursor a
\* '%' goes to the UART, the byte is dropped and usb_rb_put sets
\* last_input_source (line 205).
usb_rb_put_enter ==
    /\ cons.cb.pc = "put"
    /\ LET new_prod == rb_next(cons.ring.producer)
       IN  cons' = IF rb_full(new_prod, cons.ring.consumer)
                   THEN [cons EXCEPT !.cb = cb_next(cons.cb),
                                     !.echoed = Min(cons.echoed + 1, 1),
                                     !.last_input_source = SOURCE_USB]
                   ELSE [cons EXCEPT !.cb.pc = "store",
                                     !.cb.new_prod = new_prod]
    /\ UNCHANGED <<mx, wft, snd, thr, rb, transfer_vars>>

\* cons_rb_put, uart.c:128-131, for the byte of cdcacm_rx_cb: with
\* interrupts disabled the byte is stored at the producer cursor as it is
\* now, and the cursor becomes the new_prod computed on entry.
usb_rb_put_store ==
    /\ cons.cb.pc = "store"
    /\ cons' = [cons EXCEPT
                  !.ring.buf[cons.ring.producer] = cons.cb.buf[cons.cb.pos + 1],
                  !.ring.producer = cons.cb.new_prod,
                  !.stored = Append(cons.stored, cons.cb.buf[cons.cb.pos + 1]),
                  !.cb = cb_next(cons.cb),
                  !.last_input_source = SOURCE_USB]
    /\ UNCHANGED <<mx, wft, snd, thr, rb, transfer_vars>>

\* CONSOLE_IRQHandler, uart.c:337-342, for one received byte: uart_rb_put
\* runs cons_rb_put to its end (nothing has a higher priority) and sets
\* last_input_source.  It comes in between any two steps of the rest.
CONSOLE_IRQHandler ==
    /\ cons.uartn > 0
    /\ LET p == cons_rb_put(cons.ring, cons.uartnext)
       IN  cons' = [cons EXCEPT
                      !.ring = p.ring,
                      !.uartn = cons.uartn - 1,
                      !.uartnext = cons.uartnext + 1,
                      !.echoed = IF p.ret = 1 THEN Min(cons.echoed + 1, 1)
                                 ELSE cons.echoed,
                      !.stored = IF p.ret = 0
                                 THEN Append(cons.stored, cons.uartnext)
                                 ELSE cons.stored,
                      !.overlap = cons.overlap \/ cons.cb.pc = "store",
                      !.last_input_source = SOURCE_UART]
    /\ UNCHANGED <<mx, wft, snd, thr, rb, transfer_vars>>

\* getchar, uart.c:328-335, called from the main loop while cdcacm_rx_cb
\* is not running (the callback runs in an interrupt or inside usb_poll),
\* up to the test of cons_rb_get for an empty ring (line 148): it returns
\* -1 there, or goes on to take the byte.
getchar ==
    /\ cons.cb.pc = "idle"
    /\ cons.get = "idle"
    /\ cons' = IF cons.ring.consumer = cons.ring.producer
               THEN [cons EXCEPT !.gc = [called |-> TRUE, empty |-> TRUE,
                                         ret |-> -1]]
               ELSE [cons EXCEPT !.get = "take"]
    /\ UNCHANGED <<mx, wft, snd, thr, rb, transfer_vars>>

\* cons_rb_get, lines 151-154, and the return of getchar: the byte at the
\* consumer cursor is read and the cursor advanced.  The interrupts may
\* have run since the test.
cons_rb_get_take ==
    /\ cons.cb.pc = "idle"
    /\ cons.get = "take"
    /\ LET ch == cons.ring.buf[cons.ring.consumer]
       IN  cons' = [cons EXCEPT
                      !.ring.consumer = rb_next(cons.ring.consumer),
                      !.get = "idle",
                      !.got = Append(cons.got, ch),
                      !.gc = [called |-> TRUE, empty |-> FALSE, ret |-> ch]]
    /\ UNCHANGED <<mx, wft, snd, thr, rb, transfer_vars>>

\* The puts_binary calls of a transfer, and the CDC_Transmit_FS calls that
\* may fail within one usb_puts_wait.
MaxOut == 2
MaxTry == 2

\* CDC_Transmit_FS(buf, len), usb.c:522-556, when the endpoint takes k
\* packets before it stays busy for 10 ms: the bytes go to
\* usbd_ep_write_packet in packets of 64; a busy endpoint ends the call
\* with -1 at the first packet, or after the timeout at a later one, with
\* the earlier packets written; USBD_OK (0) when all are written.
CDC_Transmit_FS(buf, k) ==
    IF k * USB_PACKET >= Len(buf)
    THEN [rc |-> 0, written |-> buf]
    ELSE [rc |-> -1, written |-> SubSeq(buf, 1, k * USB_PACKET)]

\* puts_binary(buf, len), uart.c:292-303, called by the transfer in the
\* main loop: to the UART, byte by byte, if last_input_source is
\* SOURCE_UART; else usb_puts_wait, which returns 1 at once unless
\* usb_console_active (line 254).  No text is waiting in usb_out_buf.  The
\* calls are of one byte (a status) or of two packets.
puts_binary ==
    /\ cons.out.pc = "idle"
    /\ cons.out.todo > 0
    /\ cons.cb.pc = "idle"
    /\ \E len \in {1, USB_PACKET + 1} :
         LET data == [i \in 1..len |-> i]
             o    == [cons.out EXCEPT !.todo = cons.out.todo - 1,
                                      !.data = data, !.sent = <<>>,
                                      !.tries = 0]
         IN  cons' = [cons EXCEPT !.out =
                 IF cons.last_input_source = SOURCE_UART
                 THEN [o EXCEPT !.via = "uart", !.ret = 0,
                                !.uart_tx = cons.out.uart_tx \o data]
                 ELSE IF ~cons.usb_console_active
                 THEN [o EXCEPT !.via = "usb", !.ret = 1]
                 ELSE [o EXCEPT !.via = "usb", !.pc = "send"]]
    /\ UNCHANGED <<mx, wft, snd, thr, rb, transfer_vars>>

\* usb_puts_wait, uart.c:268-289 (one pass with tlen = len, as built with
\* libopencm3): CDC_Transmit_FS(buf, tlen), and while it does not return
\* USBD_OK the same call again for up to 50 ms, then return (1).
usb_puts_wait ==
    /\ cons.out.pc = "send"
    /\ \E k \in 0..((Len(cons.out.data) + USB_PACKET - 1) \div USB_PACKET),
          elapsed \in BOOLEAN :
         LET r == CDC_Transmit_FS(cons.out.data, k)
             o == [cons.out EXCEPT !.sent = cons.out.sent \o r.written,
                                   !.usb_tx = cons.out.usb_tx \o r.written]
         IN  /\ (r.rc = 0 \/ cons.out.tries = 0) => ~elapsed
             /\ (r.rc # 0 /\ cons.out.tries = MaxTry) => elapsed
             /\ cons' = [cons EXCEPT !.out =
                     IF r.rc = 0
                     THEN [o EXCEPT !.pc = "idle", !.ret = 0]
                     ELSE IF elapsed
                     THEN [o EXCEPT !.pc = "idle", !.ret = 1]
                     ELSE [o EXCEPT !.tries = cons.out.tries + 1]]
    /\ UNCHANGED <<mx, wft, snd, thr, rb, transfer_vars>>

(***************************************************************************)
(* The EEPROM driver of the firmware, src/fw/mx29f1615.c: mx_write with    *)
(* mx_program_page, mx_read and mx_wait_for_done_status below it, and      *)
(* mx_erase.  What the part answers (the status it reports, whether a page *)
(* reads back as written) and the abort button are choices of the          *)
(* environment.  Addresses and lengths are counted in pages for a write    *)
(* and in sectors for an erase.                                            *)
(***************************************************************************)

\* The pages of one mx_write, the sectors of one mx_erase, and the calls
\* of a run.
MaxPages == 2
MaxSectors == 2
MaxCalls == 2

\* The driver between calls.
\*   using_usb_interrupt  usb.c:130, set by usb_startup
\*   masked        the USB interrupt is disabled in the NVIC
\*   calls         the calls the run may still make
\*   op, pc        the function running and where it is
\*   count, page   mx_write: pages left, and the page at addr
\*   try_count     of the page at addr
\*   len           mx_erase: sectors left
\*   rc, why       the latest return value and what caused it
\*   attempts      per page of the latest mx_write, the calls of
\*                 mx_program_page for it
\*   matched       per page, whether its read-back matched the data
MxStart(irq, calls) ==
    [using_usb_interrupt |-> irq,
     masked    |-> FALSE,
     calls     |-> calls,
     op        |-> "none",
     pc        |-> "idle",
     count     |-> 0,
     page      |-> 0,
     try_count |-> 0,
     len       |-> 0,
     rc        |-> 0,
     why       |-> "none",
     attempts  |-> [p \in 1..MaxPages |-> 0],
     matched   |-> [p \in 1..MaxPages |-> FALSE]]

\* An usb_unmask_interrupts that leaves the interrupt as it is.
usb_unmask_interrupts_noop(m) == m.masked

\* usb_mask_interrupts, usb.c:172-181: nvic_disable_irq(USB_INTERRUPT)
\* unless the USB interrupt is not in use.  The value of masked afterwards.
usb_mask_interrupts(m) == IF m.using_usb_interrupt THEN TRUE ELSE m.masked

\* usb_unmask_interrupts, usb.c:183-192: nvic_enable_irq(USB_INTERRUPT)
\* unless the USB interrupt is not in use.
usb_unmask_interrupts(m) == IF m.using_usb_interrupt THEN FALSE ELSE m.masked

\* A verify that is repeated without end.
VerifyRetryAlways(try_count) == TRUE

\* if (try_count++ < 2) goto try_again;  mx29f1615.c:627-630
VerifyRetry(try_count) == try_count < 2

\* A caller enters mx_write (lines 596-603) with count pages in range, or
\* mx_erase (lines 736-747, with mx_status_clear, whose two mx_cmd mask
\* and unmask the interrupt).
mx_call ==
    /\ mx.pc = "idle"
    /\ mx.calls > 0
    /\ \/ \E count \in 1..MaxPages :
            mx' = [mx EXCEPT !.calls = mx.calls - 1, !.op = "write",
                             !.pc = "w_loop", !.count = count, !.page = 1,
                             !.try_count = 0, !.why = "none",
                             !.attempts = [p \in 1..MaxPages |-> 0],
                             !.matched = [p \in 1..MaxPages |-> FALSE]]
       \/ \E len \in 1..MaxSectors :
            mx' = [mx EXCEPT !.calls = mx.calls - 1, !.op = "erase",
                             !.pc = "e_loop", !.len = len, !.why = "none",
                             !.masked = usb_unmask_interrupts(
                                 [mx EXCEPT !.masked = usb_mask_interrupts(mx)])]
    /\ UNCHANGED <<wft, snd, thr, cons, rb, transfer_vars>>

\* mx_write, the head of while (count > 0), lines 604-611: try_count = 0
\* and the test of the abort button; after the loop mx_read_mode() and
\* return (0), lines 639-640.
mx_write_page ==
    /\ mx.pc = "w_loop"
    /\ \/ /\ mx.count > 0
          /\ \E abort \in BOOLEAN :
               mx' = IF abort
                     THEN [mx EXCEPT !.pc = "idle", !.rc = 3, !.why = "abort"]
                     ELSE [mx EXCEPT !.pc = "program", !.try_count = 0]
       \/ /\ mx.count = 0
          /\ mx' = [mx EXCEPT !.pc = "idle", !.rc = 0, !.why = "done",
                              !.masked = usb_unmask_interrupts(
                                  [mx EXCEPT !.masked = usb_mask_interrupts(mx)])]
    /\ UNCHANGED <<wft, snd, thr, cons, rb, transfer_vars>>

\* mx_program_page, lines 559-580: VPP on, usb_mask_interrupts() and the
\* words of the page go to the part.
mx_program_page ==
    /\ mx.pc = "program"
    /\ mx' = [mx EXCEPT !.pc = "loaded",
                        !.masked = usb_mask_interrupts(mx),
                        !.attempts[mx.page] = mx.attempts[mx.page] + 1]
    /\ UNCHANGED <<wft, snd, thr, cons, rb, transfer_vars>>

\* mx_program_page, lines 581-586: VPP off, usb_unmask_interrupts(), and
\* mx_wait_for_done_status is entered.
mx_program_page_end ==
    /\ mx.pc = "loaded"
    /\ mx' = [mx EXCEPT !.pc = "wait", !.masked = usb_unmask_interrupts(mx)]
    /\ UNCHANGED <<wft, snd, thr, cons, rb, transfer_vars>>

\* mx_erase, the head of while (len > 0), lines 749-775: VPP on,
\* usb_mask_interrupts() and the erase command goes to the part.
mx_erase ==
    /\ mx.pc = "e_loop"
    /\ mx' = [mx EXCEPT !.pc = "e_loaded", !.masked = usb_mask_interrupts(mx)]
    /\ UNCHANGED <<wft, snd, thr, cons, rb, transfer_vars>>

\* mx_erase, lines 776-780: VPP off, usb_unmask_interrupts(), and
\* mx_wait_for_done_status is entered.
mx_erase_end ==
    /\ mx.pc = "e_loaded"
    /\ mx' = [mx EXCEPT !.pc = "wait", !.masked = usb_unmask_interrupts(mx)]
    /\ UNCHANGED <<wft, snd, thr, cons, rb, transfer_vars>>

\* mx_wait_for_done_status, lines 482-540, polls the status of the part
\* and returns 0 (done), 1 (timeout), 2 (failed; mx_status_clear masks and
\* unmasks) or 3 (bad status, abort button).  mx_write returns a nonzero
\* rc (lines 613-616) and else goes on to verify the page; mx_erase goes
\* on to the next sector or leaves its loop, calls mx_read_mode() and
\* returns rc (lines 781-788).
mx_wait_for_done_status ==
    /\ mx.pc = "wait"
    /\ \E rc \in 0..3 :
         LET m == IF rc = 2
                  THEN [mx EXCEPT !.masked = usb_unmask_interrupts(
                            [mx EXCEPT !.masked = usb_mask_interrupts(mx)])]
                  ELSE mx
         IN  mx' = IF mx.op = "write"
                   THEN IF rc # 0
                        THEN [m EXCEPT !.pc = "idle", !.rc = rc,
                                       !.why = "program"]
                        ELSE [m EXCEPT !.pc = "verify"]
                   ELSE IF mx.len <= 1
                        THEN [m EXCEPT !.pc = "idle", !.rc = rc,
                                       !.why = "done", !.len = 0,
                                       !.masked = usb_unmask_interrupts(
                                           [m EXCEPT !.masked =
                                               usb_mask_interrupts(m)])]
                        ELSE [m EXCEPT !.pc = "e_loop", !.len = mx.len - 1]
    /\ UNCHANGED <<wft, snd, thr, cons, rb, transfer_vars>>

\* mx_write, lines 621-622: mx_read_mode() (one mx_cmd) and mx_read, lines
\* 382-389: usb_mask_interrupts() and the words of the page are read.
mx_read ==
    /\ mx.pc = "verify"
    /\ mx' = [mx EXCEPT !.pc = "reading",
                        !.masked = usb_mask_interrupts(
                            [mx EXCEPT !.masked = usb_unmask_interrupts(
                                [mx EXCEPT !.masked =
                                    usb_mask_interrupts(mx)])])]
    /\ UNCHANGED <<wft, snd, thr, cons, rb, transfer_vars>>

\* mx_read, lines 390-392: usb_unmask_interrupts() and return (0); then
\* mx_write, lines 626-637: if the read-back differs the page is
\* programmed again while try_count++ < 2, else return (3); if it matches
\* mx_write moves on to the next page.
mx_write_compare ==
    /\ mx.pc = "reading"
    /\ \E same \in BOOLEAN :
         LET m == [mx EXCEPT !.masked = usb_unmask_interrupts(mx)]
         IN  mx' = IF same
                   THEN [m EXCEPT !.pc = "w_loop",
                                  !.matched[mx.page] = TRUE,
                                  !.count = mx.count - 1,
                                  !.page = mx.page + 1]
                   ELSE IF VerifyRetry(mx.try_count)
                   THEN [m EXCEPT !.pc = "program",
                                  !.try_count = mx.try_count + 1]
                   ELSE [m EXCEPT !.pc = "idle", !.rc = 3, !.why = "verify",
                                  !.try_count = mx.try_count + 1]
    /\ UNCHANGED <<wft, snd, thr, cons, rb, transfer_vars>>

(***************************************************************************)
(* wait_for_text of the host, src/sw/mxprog.c:1175-1203.                   *)
(***************************************************************************)

(***************************************************************************)
(* Waiting for text of the programmer, src/sw/mxprog.c:1163-1231.          *)
(***************************************************************************)

\* The bytes that arrive before the programmer falls silent in a run of
\* wait_for_text.
MaxStream == 5

\* "CMD>", the prompt send_cmd waits for (line 1220).
TXT_prompt == <<67, 77, 68, 62>>

\* No call of wait_for_text has been made.
\*   str   the text waited for
\*   rx    the bytes that arrive, in order, before a silence of timeout ms
\*   ret   the return value; left: the bytes of rx not taken from rx_rb
WftInit ==
    [called |-> FALSE, str |-> <<>>, rx |-> <<>>, ret |-> 0, left |-> <<>>]

\* The loop of wait_for_text, lines 1185-1200, with ptr at str[ptr] (from
\* 0) and rx the bytes yet to come: at the end of str return 0; when
\* rx_rb_get finds nothing for timeout ms return 1; a byte equal to *ptr
\* advances ptr, any other byte sets ptr back to str.
RECURSIVE wait_for_text_loop(_, _, _)
wait_for_text_loop(str, ptr, rx) ==
    IF ptr = Len(str) THEN [ret |-> 0, left |-> rx]
    ELSE IF rx = <<>> THEN [ret |-> 1, left |-> rx]
    ELSE IF str[ptr + 1] = Head(rx)
    THEN wait_for_text_loop(str, ptr + 1, Tail(rx))
    ELSE wait_for_text_loop(str, 0, Tail(rx))

\* wait_for_text(str, timeout) as send_cmd calls it.
wait_for_text ==
    /\ ~wft.called
    /\ wft.str # <<>>
    /\ LET r == wait_for_text_loop(wft.str, 0, wft.rx)
       IN  wft' = [wft EXCEPT !.called = TRUE, !.ret = r.ret,
                              !.left = r.left]
    /\ UNCHANGED <<mx, snd, thr, cons, rb, transfer_vars>>

\* An entry of hlog / dlog.
Ev(kind, n, val) == [kind |-> kind, n |-> n, val |-> val]

\* The entry of a receiver's check_crc: n bytes of the field arrived, the
\* word compared was field, the locally computed CRC was crc.
CrcEv(n, what, field, crc) ==
    Ev("crc", n, [what |-> what, field |-> field, crc |-> crc])

\* The locals of the host operation at entry.
\*   receive_ll_crc: pos = 0, tlen = 0, received = 0, crc = 0
\*   send_ll_crc:    pos = 0, crc = 0, cap_count = cap_prod = cap_cons = 0
HostInit(op) ==
    [pc        |-> IF op = "read" THEN "rx_status" ELSE "tx_discard",
     pos       |-> 0,
     tlen      |-> 0,
     received  |-> 0,
     crc       |-> CrcZero,
     buf       |-> <<>>,
     cap_pos   |-> <<0, 0>>,
     cap_count |-> 0,
     cap_prod  |-> 0,
     cap_cons  |-> 0,
     ret       |-> 0,
     file      |-> <<>>,
     report    |-> "none"]

\* A programmer whose first checkpoint comes after two intervals.
DevInitLate(op, addr, len) ==
    [pc        |-> IF op = "read" THEN "rd_loop" ELSE "wr_loop",
     addr      |-> addr,
     len       |-> len,
     pos       |-> 0,
     tlen      |-> 0,
     crc       |-> CrcZero,
     crc_next  |-> 2 * DATA_CRC_INTERVAL,
     cap_pos   |-> <<0, 0, 0, 0>>,
     cap_count |-> 0,
     cap_prod  |-> 0,
     cap_cons  |-> 0,
     buf       |-> <<>>,
     saddr     |-> addr,
     rc        |-> FW_RC_SUCCESS]

\* The locals of the firmware operation at entry.
\*   prom_read_binary:  crc = 0, crc_next = 256, cap_* = 0, pos = 0
\*   prom_write_binary: crc = 0, saddr = addr, crc_next = 256
DevInit(op, addr, len) ==
    [pc        |-> IF op = "read" THEN "rd_loop" ELSE "wr_loop",
     addr      |-> addr,
     len       |-> len,
     pos       |-> 0,
     tlen      |-> 0,
     crc       |-> CrcZero,
     crc_next  |-> DATA_CRC_INTERVAL,
     cap_pos   |-> <<0, 0, 0, 0>>,
     cap_count |-> 0,
     cap_prod  |-> 0,
     cap_cons  |-> 0,
     buf       |-> <<>>,
     saddr     |-> addr,
     rc        |-> FW_RC_SUCCESS]

Init ==
    \E op \in {"read", "write"} : \E n \in Lens(op), a \in Addrs(op) :
        /\ inp  = [op |-> op, addr |-> a, len |-> n]
        /\ host = HostInit(op)
        /\ dev  = DevInit(op, a, n)
        /\ d2h  = <<>>
        /\ h2d  = <<>>
        /\ flt  = [any |-> FALSE, severed |-> FALSE, kind |-> "none"]
        /\ hlog = <<>>
        /\ dlog = <<>>
        /\ prom = <<>>
        /\ rb   = RbInit
        /\ snd  = SndInit(<<>>)
        /\ mx   = MxStart(FALSE, 0)
        /\ wft  = WftInit
        /\ thr  = ThrInit
        /\ cons = ConsInit

(***************************************************************************)
(* The link and its faults                                                 *)
(***************************************************************************)

\* What a channel holds after its sender hands it bytes: a severed link
\* delivers nothing more.
Wire(chan, bytes) == IF flt.severed THEN chan ELSE chan \o bytes

\* First n bytes / all but the first n bytes of a channel.
Take(chan, n) == SubSeq(chan, 1, n)
Drop(chan, n) == SubSeq(chan, n + 1, Len(chan))

\* A receive that ends short of its length has timed out.  When no byte
\* can arrive any more (quiet: the peer has returned or waits itself, or
\* the link is severed) that is a consequence of what happened before;
\* otherwise the timeout is itself the fault of the run (a peer or link
\* that is slower than the timeout), and a run has at most one.
\* A receive without a timeout.
MayEndBlocking(chan, n, quiet) == Len(chan) >= n
MayEnd(chan, n, quiet) == Len(chan) >= n \/ quiet \/ ~flt.any
Late(chan, n, quiet) ==
    IF Len(chan) < n /\ ~quiet
    THEN [flt EXCEPT !.any = TRUE, !.kind = "timeout"]
    ELSE flt

\* Outcomes of a transmit call (TRUE: sent) and of a backend call (TRUE:
\* succeeded).  A failure is a fault, and a run has at most one.
Outcomes == IF flt.any THEN {TRUE} ELSE {TRUE, FALSE}
\* The same for a step with several calls: which one fails, if any.
FailPoints(calls) == IF flt.any THEN {"none"} ELSE {"none"} \cup calls
Fault(f, ok, kind) == IF ok THEN f ELSE [f EXCEPT !.any = TRUE, !.kind = kind]

\* The abort button has been pressed and is_abort_button_pressed() has not
\* been called since (src/fw/button.c:53-71).
abort_pending == flt.kind = "abort"

HostDone == host.pc = "done"
DevDone  == dev.pc = "done"

\* The number of bytes the next step of the host / of the programmer
\* takes off the link: the length of its receive_ll, or the getchar calls
\* it makes before it can go on.
HostNeeds ==
    CASE host.pc = "rx_status" -> IF host.pos < inp.len THEN 1 ELSE 0
      [] host.pc = "rx_data"   -> host.tlen
      [] host.pc = "rx_crc"    -> 4
      [] host.pc = "tx_window" -> IF host.cap_count >= HOST_CAP THEN 1 ELSE 0
      [] host.pc = "tx_loop"   -> IF host.pos >= inp.len /\ host.cap_count > 0
                                  THEN 1 ELSE 0
      [] OTHER                 -> 0
DevNeeds ==
    CASE dev.pc = "rd_window" -> IF dev.cap_count >= DEV_CAP THEN 1 ELSE 0
      [] dev.pc = "rd_drain"  -> IF dev.cap_count > 0
                                    \/ dev.crc_next # DATA_CRC_INTERVAL
                                 THEN 1 ELSE 0
      [] dev.pc = "wr_loop"   -> IF dev.len > 0 THEN 1
                                 ELSE IF dev.crc_next # DATA_CRC_INTERVAL
                                 THEN 4 ELSE 0
      [] dev.pc = "wr_crc"    -> 4
      [] OTHER                -> 0

\* The host / the programmer is in a receive and has no byte to take.
HostWaits == HostNeeds > 0 /\ d2h = <<>>
DevWaits  == DevNeeds > 0 /\ h2d = <<>>

\* Nothing more can reach the host / the programmer.
HostQuiet == flt.severed \/ DevDone \/ DevWaits
DevQuiet  == flt.severed \/ HostDone \/ HostWaits

(***************************************************************************)
(* Host, read direction: receive_ll_crc and its caller eeprom_read         *)
(* (src/sw/mxprog.c:847-1021, 1386-1426)                                   *)
(***************************************************************************)

\* int receive_ll(buf, buflen, timeout, exact_bytes): the number of bytes it
\* returns, which is buflen unless the link stays silent for the timeout.
receive_ll(chan, buflen) == Min(buflen, Len(chan))

\* while (pos < buflen) is false: printf("\r100%%\n"); return (pos);
receive_ll_crc_exit ==
    /\ host.pc = "rx_status"
    /\ host.pos >= inp.len
    /\ host' = [host EXCEPT !.pc = "rx_ret", !.ret = host.pos]
    /\ UNCHANGED <<mx, wft, snd, thr, cons, rb, inp, dev, d2h, h2d, flt, hlog, dlog, prom>>

\* A status test that lets every status byte pass.
StatusFailedNever(rc) == FALSE
\* if (rc != 0) of receive_ll_crc: the programmer reports a failed read.
StatusFailed(rc) == rc # 0

\* Lines 983-995: tlen, then the status byte of the chunk.
receive_ll_crc_status ==
    /\ host.pc = "rx_status"
    /\ host.pos < inp.len
    /\ LET tlen     == Min(inp.len - host.pos, DATA_CRC_INTERVAL)
           received == receive_ll(d2h, 1)
       IN  /\ MayEnd(d2h, 1, HostQuiet)
           /\ flt' = Late(d2h, 1, HostQuiet)
           /\ d2h' = Drop(d2h, received)
           /\ IF received = 0
              THEN \* printf("Status receive timeout ..."); return (-1);
                   /\ host' = [host EXCEPT !.pc = "rx_ret", !.ret = -1,
                                           !.tlen = tlen, !.received = 0]
                   /\ hlog' = Append(hlog, Ev("status", 0, "timeout"))
              ELSE IF StatusFailed(d2h[1])
              THEN \* printf("Read error %d at 0x%x\n", rc, pos); return (-1);
                   /\ host' = [host EXCEPT !.pc = "rx_ret", !.ret = -1,
                                           !.tlen = tlen, !.received = 1]
                   /\ hlog' = Append(hlog, Ev("status", 1, d2h[1]))
              ELSE /\ host' = [host EXCEPT !.pc = "rx_data",
                                           !.tlen = tlen, !.received = 1]
                   /\ hlog' = Append(hlog, Ev("status", 1, d2h[1]))
    /\ UNCHANGED <<mx, wft, snd, thr, cons, rb, inp, dev, h2d, dlog, prom>>

\* Lines 997-998: the payload, stored at data, and the running CRC.
receive_ll_crc_data ==
    /\ host.pc = "rx_data"
    /\ LET received == receive_ll(d2h, host.tlen)
           data     == Take(d2h, received)
       IN  /\ MayEnd(d2h, host.tlen, HostQuiet)
           /\ flt' = Late(d2h, host.tlen, HostQuiet)
           /\ d2h' = Drop(d2h, received)
           /\ host' = [host EXCEPT !.pc = "rx_crc",
                                   !.received = received,
                                   !.buf = Take(host.buf, host.pos) \o data,
                                   !.crc = crc32(host.crc, data)]
           /\ hlog' = Append(hlog, Ev("data", received, host.pos))
    /\ UNCHANGED <<mx, wft, snd, thr, cons, rb, inp, dev, h2d, dlog, prom>>

\* What compcrc may hold where receive_ll stored no byte: it is an
\* uninitialized automatic variable.
StaleWords(crc) == {CrcToWire(crc), SENTINEL, <<0, 0, 0, 0>>}

\* A reader that takes whatever follows for a failure message.
report_remote_failure_message_any(chan) == <<receive_ll(chan, 64), 1>>
\* int report_remote_failure_message(void), given the bytes that follow
\* the CRC position: <<bytes it consumes, its return value>>.
report_remote_failure_message(chan) ==
    LET len == receive_ll(chan, 64)
    IN  <<len, IF len > 2 /\ chan[1] = 32 /\ chan[2] = 32 THEN 1 ELSE 0>>

\* check_crc(crc, pos, pos + received, true) at line 1002 and what the
\* loop does with its result (lines 1003-1017).  The log gets the text
\* report_remote_failure_message took, if it was called, and then the
\* verdict of check_crc.
\*   n     bytes of the CRC that arrived before the timeout
\*   stale what compcrc held before
\*   sent  whether send_ll_bin(&rc, 1) got the status onto the link
receive_ll_crc_check(n, stale, sent) ==
    LET wire    == Take(d2h, n) \o SubSeq(stale, n + 1, 4)
        compcrc == CrcFromWire(wire)
        rest    == Drop(d2h, n)
        diag    == IF compcrc # host.crc /\ compcrc = SENTINEL
                   THEN report_remote_failure_message(rest)
                   ELSE <<0, 0>>
        rc      == IF compcrc # host.crc THEN 1 ELSE 0
        text    == IF compcrc # host.crc /\ compcrc = SENTINEL
                   THEN <<Ev("text", diag[1], Take(rest, diag[1]))>>
                   ELSE <<>>
        end     == host.pos + host.received
        what    == IF n = 0 THEN "timeout"
                   ELSE IF diag[2] = 1 THEN "diagnostic"
                   ELSE IF n < 4 THEN (IF rc = 0 THEN "short_match" ELSE "short")
                   ELSE IF rc = 0 THEN "match" ELSE "mismatch"
    IN  IF n = 0
        THEN \* printf("CRC receive timeout ..."); return (1);
             /\ host' = [host EXCEPT !.pc = "rx_ret", !.ret = end]
             /\ hlog' = Append(hlog, CrcEv(0, what, compcrc, host.crc))
             /\ d2h' = d2h
             /\ h2d' = h2d
             /\ sent
        ELSE IF diag[2] = 1
        THEN \* return (1);  // Failure message from programmer
             /\ host' = [host EXCEPT !.pc = "rx_ret", !.ret = end]
             /\ hlog' = hlog \o text \o <<CrcEv(n, what, compcrc, host.crc)>>
             /\ d2h' = Drop(rest, diag[1])
             /\ h2d' = h2d
             /\ sent
        ELSE /\ d2h' = Drop(rest, diag[1])
             /\ h2d' = IF sent THEN Wire(h2d, <<rc>>) ELSE h2d
             /\ hlog' = hlog \o text \o <<CrcEv(n, what, compcrc, host.crc)>>
                             \o (IF sent THEN <<Ev("ack", 1, rc)>> ELSE <<>>)
             /\ IF ~sent \/ rc # 0
                THEN \* if (check_crc(...)) return (pos + received);
                     host' = [host EXCEPT !.pc = "rx_ret", !.ret = end]
                ELSE IF host.received < host.tlen
                THEN \* return (pos);  // Timeout
                     host' = [host EXCEPT !.pc = "rx_ret", !.pos = end,
                                          !.ret = end]
                ELSE host' = [host EXCEPT !.pc = "rx_status", !.pos = end]

receive_ll_crc_crc ==
    /\ host.pc = "rx_crc"
    /\ MayEnd(d2h, 4, HostQuiet)
    /\ LET n == receive_ll(d2h, 4)
       IN  \E stale \in (IF n \in 1..3 THEN StaleWords(host.crc)
                         ELSE {SENTINEL}),
              sent \in Outcomes :
               /\ receive_ll_crc_check(n, stale, sent)
               /\ flt' = Fault(Late(d2h, 4, HostQuiet), sent, "txfail")
    /\ UNCHANGED <<mx, wft, snd, thr, cons, rb, inp, dev, dlog, prom>>

\* "FAILURE" and its terminating NUL, the 8 bytes strncmp compares.
FAILURE_STR == <<70, 65, 73, 76, 85, 82, 69, 0>>

\* eeprom_read after receive_ll_crc has returned rxcount (lines 1404-1424).
\*   before  whether the bytes in front of eebuf compare equal to "FAILURE"
\*           (only read when rxcount < 11)
eeprom_read_tail(rxcount, before) ==
    LET short   == rxcount < inp.len
        failure == /\ short
                   /\ IF rxcount < 11 THEN before
                      ELSE SubSeq(host.buf, rxcount - 10, rxcount - 3)
                           = FAILURE_STR
        count   == IF failure THEN rxcount - 11 ELSE rxcount
    IN  IF rxcount = -1
        THEN [host EXCEPT !.pc = "done", !.report = "error"]
        ELSE [host EXCEPT !.pc = "done",
                          !.file = IF count > 0 THEN Take(host.buf, count)
                                   ELSE <<>>,
                          !.report = IF short THEN "failed"
                                     ELSE IF count > 0 THEN "read" ELSE "empty"]

eeprom_read ==
    /\ host.pc = "rx_ret"
    /\ \E before \in (IF host.ret \in 0..10 /\ host.ret < inp.len
                      THEN BOOLEAN ELSE {FALSE}) :
           host' = eeprom_read_tail(host.ret, before)
    /\ UNCHANGED <<mx, wft, snd, thr, cons, rb, inp, dev, d2h, h2d, flt, hlog, dlog, prom>>

(***************************************************************************)
(* Firmware helpers (src/fw/prom_access.c:131-181, src/fw/pcmds.c:386-421) *)
(***************************************************************************)

\* The operation returns rc to cmd_prom, which prints "FAILURE %d" for a
\* nonzero rc; printf output goes out on the console link.
DevReturn(d, rc) == [d EXCEPT !.pc = "done", !.rc = rc]
DevReturnText(rc) == IF rc # FW_RC_SUCCESS THEN TXT_failure ELSE <<>>

\* A check that takes a missing acknowledgment for a good one.
check_rc_lenient(chan) ==
    IF Len(chan) = 0 THEN <<0, FW_RC_SUCCESS, <<>> >>
    ELSE IF chan[1] # 0 THEN <<1, FW_RC_FAILURE, TXT_rc_error>>
    ELSE <<1, FW_RC_SUCCESS, <<>> >>
\* A check that takes any byte for a good acknowledgment.
check_rc_any(chan) ==
    IF Len(chan) = 0 THEN <<0, FW_RC_TIMEOUT, TXT_rc_timeout>>
    ELSE <<1, FW_RC_SUCCESS, <<>> >>
\* static int check_rc(uint pos): <<bytes consumed, result, text printed>>
\* from the bytes waiting in the console input.
check_rc(chan) ==
    IF Len(chan) = 0 THEN <<0, FW_RC_TIMEOUT, TXT_rc_timeout>>
    ELSE IF chan[1] # 0 THEN <<1, FW_RC_FAILURE, TXT_rc_error>>
    ELSE <<1, FW_RC_SUCCESS, <<>> >>

\* The log entry of a check_rc.
AckEv(chan) == IF Len(chan) = 0 THEN Ev("rc", 0, "timeout")
               ELSE Ev("rc", 1, chan[1])

\* A window test that lets two more checkpoints out.
WindowFullSlack(cap_count, size) == cap_count > size + 1
\* A window test that is late by one.
WindowFullLate(cap_count, size) == cap_count > size
\* if (cap_count >= ARRAY_SIZE(cap_pos)): the window is full and the
\* oldest acknowledgment is taken before anything more is recorded.
WindowFull(cap_count, size) == cap_count >= size

\* if (++cap_cons >= ARRAY_SIZE(cap_pos)) cap_cons = 0;
RingNext(i, size) == IF i + 1 >= size THEN 0 ELSE i + 1

(***************************************************************************)
(* Firmware, read direction: prom_read_binary                              *)
(* (src/fw/prom_access.c:188-272)                                          *)
(***************************************************************************)

\* sizeof (buf) of prom_read_binary (src/fw/prom_access.c:192)
DEV_RBUF == 256

\* A chunk length taken from a buffer of half the checkpoint interval.
prom_read_tlen_half(len, crc_next) == Min(Min(DEV_WBUF, len), crc_next)
\* Lines 203-207: uint32_t tlen = sizeof (buf), capped by len and crc_next.
prom_read_tlen(len, crc_next) == Min(Min(DEV_RBUF, len), crc_next)

\* Lines 203-224: read a chunk from the backend, send status and payload.
\* The call rc = prom_read(addr, tlen, buf) is logged as a "read" entry.
\*   fail = "read"    prom_read fails
\*   fail = "status"  puts_binary(&rc, 1) times out
\*   fail = "data"    puts_binary(buf, tlen) times out
prom_read_binary_chunk ==
    /\ dev.pc = "rd_loop"
    /\ dev.len > 0
    /\ \E fail \in FailPoints({"read", "status", "data"}) :
        LET tlen  == prom_read_tlen(dev.len, dev.crc_next)
            buf   == SrcBytes(dev.addr, tlen)
            rd_ok == fail # "read"
            st_ok == fail # "status"
            da_ok == fail # "data"
            rc    == IF rd_ok THEN FW_RC_SUCCESS ELSE FW_RC_FAILURE
            called == Ev("read", tlen, dev.addr)
        IN  /\ flt' = Fault(Fault(flt, rd_ok, "backend"),
                            st_ok /\ da_ok, "txfail")
            /\ IF ~st_ok
               THEN \* printf("Status send timeout ..."); return (RC_TIMEOUT);
                    /\ dev' = DevReturn(dev, FW_RC_TIMEOUT)
                    /\ d2h' = Wire(d2h, TXT_send_timeout
                                        \o DevReturnText(FW_RC_TIMEOUT))
                    /\ dlog' = Append(dlog, called)
               ELSE IF rc # FW_RC_SUCCESS
               THEN \* if (rc != RC_SUCCESS) return (rc);
                    /\ dev' = DevReturn(dev, rc)
                    /\ d2h' = Wire(d2h, <<rc>> \o DevReturnText(rc))
                    /\ dlog' = dlog \o <<called, Ev("status", 1, rc)>>
               ELSE IF ~da_ok
               THEN \* printf("Data send timeout ..."); return (RC_TIMEOUT);
                    /\ dev' = DevReturn(dev, FW_RC_TIMEOUT)
                    /\ d2h' = Wire(d2h, <<rc>> \o TXT_send_timeout
                                        \o DevReturnText(FW_RC_TIMEOUT))
                    /\ dlog' = dlog \o <<called, Ev("status", 1, rc)>>
               ELSE /\ dev' = [dev EXCEPT !.pc = "rd_window",
                                          !.tlen = tlen,
                                          !.buf = buf,
                                          !.crc = fw_crc32(dev.crc, buf),
                                          !.crc_next = dev.crc_next - tlen,
                                          !.addr = dev.addr + tlen,
                                          !.len = dev.len - tlen,
                                          !.pos = dev.pos + tlen]
                    /\ d2h' = Wire(d2h, <<rc>> \o buf)
                    /\ dlog' = dlog \o <<called, Ev("status", 1, rc),
                                         Ev("data", tlen, dev.pos)>>
    /\ UNCHANGED <<mx, wft, snd, thr, cons, rb, inp, host, h2d, hlog, prom>>

\* Lines 226-246: with the window full, take the oldest acknowledgment;
\* then, at a checkpoint, send the CRC and record its position.
\*   crc_ok  puts_binary(&crc, 4) succeeded
prom_read_binary_window ==
    /\ dev.pc = "rd_window"
    /\ \E crc_ok \in Outcomes :
        LET full == WindowFull(dev.cap_count, DEV_CAP)
            ack  == IF full THEN check_rc(h2d) ELSE <<0, FW_RC_SUCCESS, <<>> >>
            d1   == IF full
                    THEN [dev EXCEPT !.cap_count = dev.cap_count - 1,
                                     !.cap_cons = RingNext(dev.cap_cons, DEV_CAP)]
                    ELSE dev
            log1 == IF full THEN Append(dlog, AckEv(h2d)) ELSE dlog
            late == IF full THEN Late(h2d, 1, DevQuiet) ELSE flt
        IN  /\ full => MayEnd(h2d, 1, DevQuiet)
            /\ h2d' = Drop(h2d, ack[1])
            /\ IF ack[2] # FW_RC_SUCCESS
               THEN \* if (check_rc(cap_pos[cap_cons])) return (RC_FAILURE);
                    /\ crc_ok
                    /\ flt' = late
                    /\ dev' = DevReturn([dev EXCEPT !.cap_count = dev.cap_count - 1],
                                        FW_RC_FAILURE)
                    /\ d2h' = Wire(d2h, ack[3] \o DevReturnText(FW_RC_FAILURE))
                    /\ dlog' = log1
               ELSE IF dev.crc_next # 0
               THEN /\ crc_ok
                    /\ flt' = late
                    /\ dev' = [d1 EXCEPT !.pc = "rd_loop"]
                    /\ d2h' = d2h
                    /\ dlog' = log1
               ELSE IF ~crc_ok
               THEN \* printf("Data send CRC timeout ..."); return (RC_TIMEOUT);
                    /\ flt' = Fault(flt, FALSE, "txfail")
                    /\ dev' = DevReturn(d1, FW_RC_TIMEOUT)
                    /\ d2h' = Wire(d2h, TXT_send_timeout
                                        \o DevReturnText(FW_RC_TIMEOUT))
                    /\ dlog' = log1
               ELSE /\ flt' = late
                    /\ dev' = [d1 EXCEPT
                                 !.pc = "rd_loop",
                                 !.cap_pos = [d1.cap_pos EXCEPT
                                                ![d1.cap_prod + 1] = dev.pos],
                                 !.cap_prod = RingNext(d1.cap_prod, DEV_CAP),
                                 !.cap_count = d1.cap_count + 1,
                                 !.crc_next = DATA_CRC_INTERVAL]
                    /\ d2h' = Wire(d2h, CrcToWire(dev.crc))
                    /\ dlog' = Append(log1, Ev("crc", dev.pos, dev.crc))
    /\ UNCHANGED <<mx, wft, snd, thr, cons, rb, inp, host, hlog, prom>>

\* Lines 248-257, once len == 0: the CRC of a trailing partial chunk.
prom_read_binary_tail ==
    /\ dev.pc = "rd_loop"
    /\ dev.len = 0
    /\ \E crc_ok \in Outcomes :
        LET partial == dev.crc_next # DATA_CRC_INTERVAL
            prod    == (dev.cap_prod + DEV_CAP - dev.cap_count) % DEV_CAP
        IN  IF partial /\ ~crc_ok
            THEN \* return (RC_TIMEOUT);
                 /\ flt' = Fault(flt, FALSE, "txfail")
                 /\ dev' = DevReturn(dev, FW_RC_TIMEOUT)
                 /\ d2h' = Wire(d2h, DevReturnText(FW_RC_TIMEOUT))
                 /\ dlog' = dlog
            ELSE /\ crc_ok
                 /\ flt' = flt
                 /\ dev' = [dev EXCEPT !.pc = "rd_drain", !.cap_prod = prod]
                 /\ d2h' = IF partial THEN Wire(d2h, CrcToWire(dev.crc))
                           ELSE d2h
                 /\ dlog' = IF partial
                            THEN Append(dlog, Ev("crc", dev.pos, dev.crc))
                            ELSE dlog
    /\ UNCHANGED <<mx, wft, snd, thr, cons, rb, inp, host, h2d, hlog, prom>>

\* Lines 259-264: one pass of  while (cap_count-- > 0).
prom_read_binary_drain ==
    /\ dev.pc = "rd_drain"
    /\ dev.cap_count > 0
    /\ MayEnd(h2d, 1, DevQuiet)
    /\ LET ack == check_rc(h2d)
       IN  /\ flt' = Late(h2d, 1, DevQuiet)
           /\ h2d' = Drop(h2d, ack[1])
           /\ dlog' = Append(dlog, AckEv(h2d))
           /\ IF ack[2] # FW_RC_SUCCESS
              THEN \* return (1);
                   /\ dev' = DevReturn([dev EXCEPT
                                          !.cap_count = dev.cap_count - 1],
                                       FW_RC_FAILURE)
                   /\ d2h' = Wire(d2h, ack[3] \o DevReturnText(FW_RC_FAILURE))
              ELSE /\ dev' = [dev EXCEPT
                                !.cap_count = dev.cap_count - 1,
                                !.cap_cons = RingNext(dev.cap_cons, DEV_CAP)]
                   /\ d2h' = d2h
    /\ UNCHANGED <<mx, wft, snd, thr, cons, rb, inp, host, hlog, prom>>

\* Lines 266-271: the acknowledgment of the trailing partial chunk.
prom_read_binary_last ==
    /\ dev.pc = "rd_drain"
    /\ dev.cap_count = 0
    /\ IF dev.crc_next # DATA_CRC_INTERVAL
       THEN LET ack == check_rc(h2d)
            IN  /\ MayEnd(h2d, 1, DevQuiet)
                /\ flt' = Late(h2d, 1, DevQuiet)
                /\ h2d' = Drop(h2d, ack[1])
                /\ dlog' = Append(dlog, AckEv(h2d))
                /\ dev' = DevReturn(dev, IF ack[2] # FW_RC_SUCCESS
                                         THEN FW_RC_FAILURE ELSE FW_RC_SUCCESS)
                /\ d2h' = IF ack[2] # FW_RC_SUCCESS
                          THEN Wire(d2h, ack[3] \o DevReturnText(FW_RC_FAILURE))
                          ELSE d2h
       ELSE /\ dev' = DevReturn(dev, FW_RC_SUCCESS)
            /\ UNCHANGED <<flt, h2d, d2h, dlog>>
    /\ UNCHANGED <<mx, wft, snd, thr, cons, rb, inp, host, hlog, prom>>

(***************************************************************************)
(* Host, write direction: send_ll_crc and its caller eeprom_write          *)
(* (src/sw/mxprog.c:928-941, 1054-1066, 1099-1160, 1444-1518)              *)
(***************************************************************************)

\* static int check_rc(uint pos) of the host: <<bytes consumed, result>>.
host_check_rc(chan) ==
    IF receive_ll(chan, 1) = 0 THEN <<0, 1>>
    ELSE IF chan[1] # 0 THEN <<1, 1>>
    ELSE <<1, 0>>

\* discard_input(250): drop what the programmer has sent so far.
send_ll_crc_discard ==
    /\ host.pc = "tx_discard"
    /\ host' = [host EXCEPT !.pc = "tx_loop"]
    /\ d2h' = <<>>
    /\ UNCHANGED <<mx, wft, snd, thr, cons, rb, inp, dev, h2d, flt, hlog, dlog, prom>>

\* Lines 1114-1122: the payload of the next chunk and the running CRC.
\*   sent  whether send_ll_bin(data, tlen) returned 0
send_ll_crc_chunk ==
    /\ host.pc = "tx_loop"
    /\ host.pos < inp.len
    /\ \E sent \in Outcomes :
        LET tlen == Min(DATA_CRC_INTERVAL, inp.len - host.pos)
            data == SrcBytes(host.pos, tlen)
        IN  /\ flt' = Fault(flt, sent, "txfail")
            /\ IF ~sent
               THEN \* if (send_ll_bin(data, tlen)) return (1);
                    /\ host' = [host EXCEPT !.pc = "tx_ret", !.ret = 1]
                    /\ UNCHANGED <<h2d, hlog>>
               ELSE /\ host' = [host EXCEPT !.pc = "tx_window",
                                            !.tlen = tlen,
                                            !.crc = crc32(host.crc, data),
                                            !.pos = host.pos + tlen]
                    /\ h2d' = Wire(h2d, data)
                    /\ hlog' = Append(hlog, Ev("data", tlen, host.pos))
    /\ UNCHANGED <<mx, wft, snd, thr, cons, rb, inp, dev, d2h, dlog, prom>>

\* Lines 1124-1148: with the window full, take the oldest acknowledgment;
\* then send the CRC and record its position.
\*   sent  whether send_ll_bin(&crc, 4) returned 0
send_ll_crc_window ==
    /\ host.pc = "tx_window"
    /\ \E sent \in Outcomes :
        LET full == WindowFull(host.cap_count, HOST_CAP)
            ack  == IF full THEN host_check_rc(d2h) ELSE <<0, 0>>
            h1   == IF full
                    THEN [host EXCEPT
                            !.cap_count = host.cap_count - 1,
                            !.cap_cons = RingNext(host.cap_cons, HOST_CAP)]
                    ELSE host
            log1 == IF full THEN Append(hlog, AckEv(d2h)) ELSE hlog
        IN  /\ full => MayEnd(d2h, 1, HostQuiet)
            /\ d2h' = Drop(d2h, ack[1])
            /\ IF ack[2] # 0
               THEN \* if (check_rc(cap_pos[cap_cons])) return (RC_FAILURE);
                    /\ sent
                    /\ flt' = Late(d2h, 1, HostQuiet)
                    /\ host' = [host EXCEPT !.pc = "tx_ret",
                                            !.cap_count = host.cap_count - 1,
                                            !.ret = RC_FAILURE]
                    /\ h2d' = h2d
                    /\ hlog' = log1
               ELSE IF ~sent
               THEN \* printf("Data send CRC timeout ..."); return (RC_TIMEOUT);
                    /\ flt' = Fault(flt, FALSE, "txfail")
                    /\ host' = [h1 EXCEPT !.pc = "tx_ret", !.ret = RC_TIMEOUT]
                    /\ h2d' = h2d
                    /\ hlog' = log1
               ELSE /\ flt' = flt
                    /\ host' = [h1 EXCEPT
                                  !.pc = "tx_loop",
                                  !.cap_pos = [h1.cap_pos EXCEPT
                                                 ![h1.cap_prod + 1] = host.pos],
                                  !.cap_prod = RingNext(h1.cap_prod, HOST_CAP),
                                  !.cap_count = h1.cap_count + 1]
                    /\ h2d' = Wire(h2d, CrcToWire(host.crc))
                    /\ hlog' = Append(log1, Ev("crc", host.pos, host.crc))
    /\ UNCHANGED <<mx, wft, snd, thr, cons, rb, inp, dev, dlog, prom>>

\* Lines 1151-1156: one pass of  while (cap_count-- > 0).
send_ll_crc_drain ==
    /\ host.pc = "tx_loop"
    /\ host.pos >= inp.len
    /\ host.cap_count > 0
    /\ MayEnd(d2h, 1, HostQuiet)
    /\ LET ack == host_check_rc(d2h)
       IN  /\ flt' = Late(d2h, 1, HostQuiet)
           /\ d2h' = Drop(d2h, ack[1])
           /\ hlog' = Append(hlog, AckEv(d2h))
           /\ IF ack[2] # 0
              THEN \* return (1);
                   host' = [host EXCEPT !.pc = "tx_ret",
                                        !.cap_count = host.cap_count - 1,
                                        !.ret = 1]
              ELSE host' = [host EXCEPT
                              !.cap_count = host.cap_count - 1,
                              !.cap_cons = RingNext(host.cap_cons, HOST_CAP)]
    /\ UNCHANGED <<mx, wft, snd, thr, cons, rb, inp, dev, h2d, dlog, prom>>

\* Lines 1158-1159: printf("\r100%%\n"); return (0);
send_ll_crc_exit ==
    /\ host.pc = "tx_loop"
    /\ host.pos >= inp.len
    /\ host.cap_count = 0
    /\ host' = [host EXCEPT !.pc = "tx_ret", !.ret = 0]
    /\ UNCHANGED <<mx, wft, snd, thr, cons, rb, inp, dev, d2h, h2d, flt, hlog, dlog, prom>>

\* eeprom_write after send_ll_crc has returned (lines 1488-1498).
eeprom_write ==
    /\ host.pc = "tx_ret"
    /\ host' = [host EXCEPT !.pc = "done",
                            !.report = IF host.ret # 0 THEN "send_failure"
                                       ELSE "wrote"]
    /\ UNCHANGED <<mx, wft, snd, thr, cons, rb, inp, dev, d2h, h2d, flt, hlog, dlog, prom>>

(***************************************************************************)
(* Firmware, write direction: prom_write_binary                            *)
(* (src/fw/prom_access.c:144-166, 282-351)                                 *)
(***************************************************************************)

\* A check that accepts whatever field arrives.
fw_check_crc_lax(chan, crc) ==
    IF Len(chan) < 4 THEN <<Len(chan), FW_RC_TIMEOUT, TXT_crc_timeout>>
    ELSE <<4, 0, <<>> >>
\* static int check_crc(crc, spos, epos, send_rc) of the firmware:
\* <<bytes consumed, result, text printed>>.
fw_check_crc(chan, crc) ==
    LET n == Min(4, Len(chan))
    IN  IF n < 4 THEN <<n, FW_RC_TIMEOUT, TXT_crc_timeout>>
        ELSE IF CrcFromWire(Take(chan, 4)) # crc
        THEN <<4, 1, TXT_crc_mismatch>>
        ELSE <<4, 0, <<>> >>

\* A buffer length that forgets the remaining transfer length.
WriteLenUncapped(d) == DEV_WBUF - (d.addr % DEV_WBUF)
\* Lines 294-301: the length of the buffer being filled.
WriteLen(d) == Min(d.len, DEV_WBUF - (d.addr % DEV_WBUF))

\* Lines 329-334, entered with rc set: inform the remote side, discard the
\* input and return rc.
\*   text  what was printed on the way here
\*   sent  whether puts_binary(&rc, 1) got the byte onto the link
prom_write_binary_fail(rc, text, sent) ==
    /\ dev' = DevReturn(dev, rc)
    /\ d2h' = Wire(d2h, text \o (IF sent THEN <<rc>> ELSE <<>>)
                        \o DevReturnText(rc))
    /\ h2d' = <<>>

\* check_crc and what follows it at lines 314-324 and 340-348.
\*   next   where the operation continues after a good checkpoint
\*   sent   whether puts_binary(&rc, 1) succeeded
\*   again  whether the puts_binary of the fail path did, after sent failed
prom_write_binary_check(next, sent, again) ==
    LET chk == fw_check_crc(h2d, dev.crc)
        ev  == CrcEv(chk[1], IF chk[2] = 0 THEN "match"
                             ELSE IF chk[1] < 4 THEN "timeout"
                             ELSE "mismatch",
                     IF chk[1] = 4 THEN CrcFromWire(Take(h2d, 4)) ELSE <<>>,
                     dev.crc)
    IN  IF chk[2] # 0
        THEN \* rc = RC_FAILURE; goto fail;
             /\ again
             /\ prom_write_binary_fail(FW_RC_FAILURE, chk[3], sent)
             /\ flt' = Fault(Late(h2d, 4, DevQuiet), sent, "txfail")
             /\ dlog' = dlog \o <<ev>>
                        \o (IF sent THEN <<Ev("ack", 1, FW_RC_FAILURE)>>
                            ELSE <<>>)
        ELSE IF ~sent
        THEN \* rc = RC_TIMEOUT; goto fail;
             /\ prom_write_binary_fail(FW_RC_TIMEOUT, <<>>, again)
             /\ flt' = Fault(flt, FALSE, "txfail")
             /\ dlog' = dlog \o <<ev>>
                        \o (IF again THEN <<Ev("ack", 1, FW_RC_TIMEOUT)>>
                            ELSE <<>>)
        ELSE /\ again
             /\ dev' = [next EXCEPT !.crc_next = DATA_CRC_INTERVAL,
                                    !.saddr = dev.addr + dev.pos]
             /\ d2h' = Wire(d2h, <<FW_RC_SUCCESS>>)
             /\ h2d' = Drop(h2d, 4)
             /\ flt' = flt
             /\ dlog' = dlog \o <<ev, Ev("ack", 1, FW_RC_SUCCESS)>>

\* Lines 303-312: the getchar loop, up to the next checkpoint or the end of
\* the buffer, whichever comes first.
prom_write_binary_recv ==
    /\ dev.pc = "wr_loop"
    /\ dev.len > 0
    /\ LET want == Min(WriteLen(dev) - dev.pos, dev.crc_next)
           got  == Min(want, Len(h2d))
           data == Take(h2d, got)
       IN  IF got = 0
           THEN \* printf("Data receive timeout ..."); rc = RC_TIMEOUT;
                \E sent \in Outcomes :
                   /\ MayEnd(h2d, 1, DevQuiet)
                   /\ prom_write_binary_fail(FW_RC_TIMEOUT, TXT_data_timeout,
                                             sent)
                   /\ flt' = Fault(Late(h2d, 1, DevQuiet), sent, "txfail")
                   /\ dlog' = dlog \o <<Ev("data", 0, "timeout")>>
                              \o (IF sent THEN <<Ev("ack", 1, FW_RC_TIMEOUT)>>
                                  ELSE <<>>)
           ELSE /\ dev' = [dev EXCEPT
                             !.pc = IF dev.crc_next = got THEN "wr_crc"
                                    ELSE IF dev.pos + got = WriteLen(dev)
                                    THEN "wr_write" ELSE "wr_loop",
                             !.buf = dev.buf \o data,
                             !.crc = crc32_each(dev.crc, data, 1, got),
                             !.crc_next = dev.crc_next - got,
                             !.pos = dev.pos + got]
                /\ h2d' = Drop(h2d, got)
                /\ dlog' = Append(dlog, Ev("data", got, dev.addr + dev.pos))
                /\ UNCHANGED <<d2h, flt>>
    /\ UNCHANGED <<mx, wft, snd, thr, cons, rb, inp, host, hlog, prom>>

\* Lines 313-325: the checkpoint inside the buffer loop.
prom_write_binary_crc ==
    /\ dev.pc = "wr_crc"
    /\ MayEnd(h2d, 4, DevQuiet)
    /\ \E sent \in Outcomes, again \in BOOLEAN :
        prom_write_binary_check(
            [dev EXCEPT !.pc = IF dev.pos = WriteLen(dev) THEN "wr_write"
                               ELSE "wr_loop"], sent, again)
    /\ UNCHANGED <<mx, wft, snd, thr, cons, rb, inp, host, hlog, prom>>

\* Lines 327-337: hand the buffer to the backend.
\*   ok    whether prom_write succeeded
\*   sent  whether puts_binary(&rc, 1) of the fail path succeeded
\* mx_write, which prom_write calls for every buffer, returns 3 when
\* is_abort_button_pressed() (src/fw/mx29f1615.c:605-610), and prom_write
\* then returns RC_FAILURE.
prom_write_binary_write ==
    /\ dev.pc = "wr_write"
    /\ \E fail \in (IF abort_pending THEN {"write"}
                    ELSE FailPoints({"write", "write_unsent"})) :
        LET tlen == WriteLen(dev)
        IN  /\ prom' = Append(prom, [addr |-> dev.addr, data |-> dev.buf,
                                     ok |-> fail = "none",
                                     acked |-> Len(SelectSeq(dlog,
                                         LAMBDA e : e.kind = "ack"))])
            /\ IF fail # "none"
               THEN /\ prom_write_binary_fail(FW_RC_FAILURE, <<>>,
                                              fail = "write")
                    /\ flt' = IF abort_pending THEN flt
                              ELSE Fault(flt, FALSE, "backend")
                    /\ dlog' = dlog \o <<Ev("write", tlen, -1)>>
                               \o (IF fail = "write"
                                   THEN <<Ev("ack", 1, FW_RC_FAILURE)>>
                                   ELSE <<>>)
               ELSE /\ dev' = [dev EXCEPT !.pc = "wr_loop",
                                          !.addr = dev.addr + tlen,
                                          !.len = dev.len - tlen,
                                          !.pos = 0,
                                          !.buf = <<>>]
                    /\ dlog' = Append(dlog, Ev("write", tlen, dev.addr))
                    /\ UNCHANGED <<d2h, h2d, flt>>
    /\ UNCHANGED <<mx, wft, snd, thr, cons, rb, inp, host, hlog>>

\* Lines 339-350, once len == 0: the checkpoint of a trailing partial
\* interval, then return (RC_SUCCESS).
prom_write_binary_tail ==
    /\ dev.pc = "wr_loop"
    /\ dev.len = 0
    /\ IF dev.crc_next # DATA_CRC_INTERVAL
       THEN \E sent \in Outcomes, again \in BOOLEAN :
               /\ MayEnd(h2d, 4, DevQuiet)
               /\ prom_write_binary_check(DevReturn(dev, FW_RC_SUCCESS),
                                          sent, again)
       ELSE /\ dev' = DevReturn(dev, FW_RC_SUCCESS)
            /\ UNCHANGED <<d2h, h2d, flt, dlog>>
    /\ UNCHANGED <<mx, wft, snd, thr, cons, rb, inp, host, hlog, prom>>

(***************************************************************************)
(* Faults of the link.  A run has at most one injected fault; everything   *)
(* after it (timeouts, error replies) is the code's reaction.              *)
(***************************************************************************)

\* The channel that carries chunks, and the one that carries the
\* acknowledgments.
DataChan == IF inp.op = "read" THEN d2h ELSE h2d
AckChan  == IF inp.op = "read" THEN h2d ELSE d2h

\* Where the link may go silent, counted in bytes still delivered: at once,
\* after a status byte, inside a payload, after a payload, inside a CRC.
Cuts(chan) ==
    {k \in (IF inp.op = "read"
            THEN {0, 1, 100, DATA_CRC_INTERVAL + 1, DATA_CRC_INTERVAL + 3}
            ELSE {0, 100, DATA_CRC_INTERVAL, DATA_CRC_INTERVAL + 2})
        : k <= Len(chan)}

\* The link is severed: of the chunk bytes in flight only the first k are
\* delivered, and nothing that is sent later arrives in either direction.
link_sever ==
    /\ ~flt.any
    /\ ~(HostDone \/ DevDone)
    /\ \E k \in Cuts(DataChan) :
        /\ d2h' = IF inp.op = "read" THEN Take(d2h, k) ELSE d2h
        /\ h2d' = IF inp.op = "read" THEN h2d ELSE Take(h2d, k)
    /\ flt' = [any |-> TRUE, severed |-> TRUE, kind |-> "sever"]
    /\ UNCHANGED <<mx, wft, snd, thr, cons, rb, inp, host, dev, hlog, dlog, prom>>

\* The chunk loop of the programmer's operation has an iteration to go:
\* while (len > 0) of prom_read_binary and of prom_write_binary.
InChunkLoop == ~DevDone /\ dev.len > 0

\* The operator presses the abort button while a chunk loop runs.
abort_button ==
    /\ ~flt.any
    /\ ~HostDone
    /\ InChunkLoop
    /\ flt' = [flt EXCEPT !.any = TRUE, !.kind = "abort"]
    /\ UNCHANGED <<mx, wft, snd, thr, cons, rb, inp, host, dev, d2h, h2d, hlog, dlog, prom>>

\* Text that is not part of the protocol at all: indented diagnostic output
\* arriving where the receiver expects binary data.
NOISE_TEXT == <<32, 32, 32, 32, 32, 32, 84, 105, 109, 101, 111, 117, 116, 10>>

\* The bytes of a channel that noise may hit: the first and the last in
\* flight, and the first of a trailing 4-byte field.
Spots(chan) == {i \in {1, Len(chan) - 3, Len(chan)} : i >= 1 /\ i <= Len(chan)}

\* The bit patterns by which noise alters a byte: the lowest bit, the
\* highest bit.
Flips == {1, 128}

\* One byte in flight is altered.
link_corrupt ==
    /\ ~flt.any
    /\ ~(HostDone \/ DevDone)
    /\ \/ \E i \in Spots(d2h), x \in Flips :
              /\ d2h' = [d2h EXCEPT ![i] = BXor(@, x)]
              /\ h2d' = h2d
       \/ \E i \in Spots(h2d), x \in Flips :
              /\ h2d' = [h2d EXCEPT ![i] = BXor(@, x)]
              /\ d2h' = d2h
    /\ flt' = [flt EXCEPT !.any = TRUE, !.kind = "corrupt"]
    /\ UNCHANGED <<mx, wft, snd, thr, cons, rb, inp, host, dev, hlog, dlog, prom>>

\* From some byte on, what arrives at the host is foreign text.
link_noise ==
    /\ ~flt.any
    /\ ~(HostDone \/ DevDone)
    /\ inp.op = "read"
    /\ \E i \in Spots(d2h) : d2h' = Take(d2h, i - 1) \o NOISE_TEXT
    /\ flt' = [flt EXCEPT !.any = TRUE, !.kind = "noise"]
    /\ UNCHANGED <<mx, wft, snd, thr, cons, rb, inp, host, dev, h2d, hlog, dlog, prom>>

\* One acknowledgment byte in flight is lost: the sender's check_rc never
\* gets it.
link_drop ==
    /\ ~flt.any
    /\ ~(HostDone \/ DevDone)
    /\ \E i \in Spots(AckChan) :
          LET rest == Take(AckChan, i - 1) \o Drop(AckChan, i)
          IN  /\ h2d' = IF inp.op = "read" THEN rest ELSE h2d
              /\ d2h' = IF inp.op = "read" THEN d2h ELSE rest
    /\ flt' = [flt EXCEPT !.any = TRUE, !.kind = "drop"]
    /\ UNCHANGED <<mx, wft, snd, thr, cons, rb, inp, host, dev, hlog, dlog, prom>>

\* The steps of the two programs.
Protocol ==
    \/ receive_ll_crc_exit
    \/ receive_ll_crc_status
    \/ receive_ll_crc_data
    \/ receive_ll_crc_crc
    \/ eeprom_read
    \/ prom_read_binary_chunk
    \/ prom_read_binary_window
    \/ prom_read_binary_tail
    \/ prom_read_binary_drain
    \/ prom_read_binary_last
    \/ send_ll_crc_discard
    \/ send_ll_crc_chunk
    \/ send_ll_crc_window
    \/ send_ll_crc_drain
    \/ send_ll_crc_exit
    \/ eeprom_write
    \/ prom_write_binary_recv
    \/ prom_write_binary_crc
    \/ prom_write_binary_write
    \/ prom_write_binary_tail

Next ==
    \/ Protocol
    \/ link_sever
    \/ link_corrupt
    \/ link_noise
    \/ link_drop
    \/ abort_button

Spec == Init /\ [][Next]_vars

\* The ring alone, its producer and its consumer running side by side
\* (reader thread and main thread on rx_rb, main thread and writer thread
\* on tx_rb); no transfer takes place.
NoTransfer ==
    /\ inp  = [op |-> "read", addr |-> 0, len |-> 0]
    /\ host = HostInit("read")
    /\ dev  = DevInit("read", 0, 0)
    /\ d2h  = <<>>
    /\ h2d  = <<>>
    /\ flt  = [any |-> FALSE, severed |-> FALSE, kind |-> "none"]
    /\ hlog = <<>>
    /\ dlog = <<>>
    /\ prom = <<>>

RbStart ==
    /\ NoTransfer
    /\ rb   = RbInit
    /\ snd  = SndInit(<<>>)
    /\ mx   = MxStart(FALSE, 0)
    /\ wft  = WftInit
    /\ thr  = ThrInit
    /\ cons = ConsInit

RbNext ==
    \/ rb_put_enter
    \/ rb_put_check
    \/ rb_put_store
    \/ rb_get_check
    \/ rb_get_take

RingSpec == RbStart /\ [][RbNext]_vars

\* send_ll_bin called on a block of up to MaxSend bytes, the bytes 1, 2,
\* ... in that order, with the ring empty and the writer thread taking
\* bytes from it at its own pace.
SendStart ==
    /\ NoTransfer
    /\ rb   = RbInit
    /\ \E n \in 0..MaxSend : snd = SndInit([i \in 1..n |-> i])
    /\ mx   = MxStart(FALSE, 0)
    /\ wft  = WftInit
    /\ thr  = ThrInit
    /\ cons = ConsInit

SendNext ==
    \/ send_ll_bin_put
    \/ rb_put_check
    \/ rb_put_store
    \/ send_ll_bin_result
    \/ rb_get_check
    \/ rb_get_take

SendSpec == SendStart /\ [][SendNext]_vars

\* The threads at work on a few bytes in each direction while the device
\* comes and goes.
ThreadStart ==
    /\ NoTransfer
    /\ rb   = RbInit
    /\ snd  = SndInit(<<>>)
    /\ mx   = MxStart(FALSE, 0)
    /\ wft  = WftInit
    /\ \E txn \in {0, MaxTx}, rxn \in {0, MaxRx}, delay \in {0, 5} :
          thr = ThrStart(txn, rxn, delay, MaxCycles)
    /\ cons = ConsInit

ThreadNext ==
    \/ dev_unplug
    \/ dev_plug
    \/ dev_send
    \/ main_put
    \/ main_get
    \/ th_serial_reader_read
    \/ th_serial_reader_put
    \/ reopen_dev
    \/ th_serial_writer

\* The reader thread and the writer thread are scheduled; the main thread
\* and the device do what they do when they do it.
ThreadSpec ==
    /\ ThreadStart
    /\ [][ThreadNext]_vars
    /\ WF_vars(th_serial_reader_read)
    /\ WF_vars(th_serial_reader_put)
    /\ WF_vars(reopen_dev)
    /\ WF_vars(th_serial_writer)

\* The same with a main thread that takes what the reader thread has put
\* into rx_rb (receive_ll polls rx_rb_get every millisecond).
ThreadLiveSpec == ThreadSpec /\ WF_vars(main_get)

\* The writer thread at work on more bytes than its batch holds.
WriterStart ==
    /\ NoTransfer
    /\ rb   = RbInit
    /\ snd  = SndInit(<<>>)
    /\ mx   = MxStart(FALSE, 0)
    /\ wft  = WftInit
    /\ \E delay \in {0, 5} :
          thr = ThrStart(WRITE_BATCH + MaxOver, 0, delay, 1)
    /\ cons = ConsInit

\* The steps of such a run: the programmer sends nothing.
WriterNext ==
    \/ dev_unplug
    \/ dev_plug
    \/ main_put
    \/ th_serial_reader_read
    \/ reopen_dev
    \/ th_serial_writer

WriterSpec == WriterStart /\ [][WriterNext]_vars

\* The console receiving on the UART and over USB while the main loop
\* calls getchar.
ConsStartState ==
    /\ NoTransfer
    /\ rb   = RbInit
    /\ snd  = SndInit(<<>>)
    /\ mx   = MxStart(FALSE, 0)
    /\ wft  = WftInit
    /\ thr  = ThrInit
    /\ \E uartn \in {0, MaxUart}, usbn \in {0, MaxUsb} :
          cons = ConsStart(uartn, usbn)

ConsNext ==
    \/ usb_host_send
    \/ cdcacm_rx_cb
    \/ usb_rb_put_enter
    \/ usb_rb_put_store
    \/ CONSOLE_IRQHandler
    \/ getchar
    \/ cons_rb_get_take

ConsSpec == ConsStartState /\ [][ConsNext]_vars

\* A transfer puts out its bytes through puts_binary after its command
\* has arrived on the UART or over USB, and a byte arrives on either
\* transport meanwhile.
OutStartState ==
    /\ NoTransfer
    /\ rb   = RbInit
    /\ snd  = SndInit(<<>>)
    /\ thr  = ThrInit
    /\ mx   = MxStart(FALSE, 0)
    /\ wft  = WftInit
    /\ \E src \in {SOURCE_UART, SOURCE_USB}, was \in BOOLEAN :
          cons = [ConsStart(1, 1) EXCEPT
                     !.last_input_source = src,
                     !.usb_console_active = (src = SOURCE_USB) \/ was,
                     !.out.todo = MaxOut,
                     !.out.arrived = src]

OutNext ==
    \/ usb_host_send
    \/ cdcacm_rx_cb
    \/ usb_rb_put_enter
    \/ usb_rb_put_store
    \/ CONSOLE_IRQHandler
    \/ puts_binary
    \/ usb_puts_wait

OutSpec == OutStartState /\ [][OutNext]_vars

\* A call of wait_for_text for one of the texts of send_cmd, "CMD>" or
\* "\n", with any bytes of these texts arriving.
WftStartState ==
    /\ NoTransfer
    /\ rb   = RbInit
    /\ snd  = SndInit(<<>>)
    /\ mx   = MxStart(FALSE, 0)
    /\ thr  = ThrInit
    /\ cons = ConsInit
    /\ \E str \in {TXT_prompt, <<10>>}, n \in 0..MaxStream :
          \E rx \in [1..n -> {67, 77, 68, 62, 10}] :
             wft = [WftInit EXCEPT !.str = str, !.rx = rx]

WftNext == wait_for_text

WftSpec == WftStartState /\ [][WftNext]_vars

\* The EEPROM driver called MaxCalls times, with the USB interrupt in use
\* or not.
MxStartState ==
    /\ NoTransfer
    /\ rb   = RbInit
    /\ snd  = SndInit(<<>>)
    /\ thr  = ThrInit
    /\ cons = ConsInit
    /\ wft  = WftInit
    /\ \E irq \in BOOLEAN : mx = MxStart(irq, MaxCalls)

MxNext ==
    \/ mx_call
    \/ mx_write_page
    \/ mx_program_page
    \/ mx_program_page_end
    \/ mx_erase
    \/ mx_erase_end
    \/ mx_wait_for_done_status
    \/ mx_read
    \/ mx_write_compare

MxSpec == MxStartState /\ [][MxNext]_vars

(***************************************************************************)
(* Properties                                                              *)
(***************************************************************************)

\* The entries of one kind of a log, in order.
Events(log, kind) == SelectSeq(log, LAMBDA e : e.kind = kind)

\* The acknowledgment bytes a sender has taken off the link, in order.
Consumed(log) == SelectSeq(log, LAMBDA e : e.kind = "rc" /\ e.n = 1)

\* The log of the side that sends the chunks, and of the side that
\* receives them.
SenderLog   == IF inp.op = "read" THEN dlog ELSE hlog
ReceiverLog == IF inp.op = "read" THEN hlog ELSE dlog

\* The bytes to transfer: the EEPROM content from addr on for a read, the
\* file content for a write.
Image == IF inp.op = "read" THEN SrcBytes(inp.addr, inp.len)
         ELSE SrcBytes(0, inp.len)

\* The concatenation of the buffers of a sequence of prom_write calls.
RECURSIVE Written(_)
Written(calls) ==
    IF calls = <<>> THEN <<>>
    ELSE Written(SubSeq(calls, 1, Len(calls) - 1)) \o calls[Len(calls)].data

\* The host / the programmer has not returned and finds on the link all
\* the bytes its next step takes.
HostCanStep == ~HostDone /\ Len(d2h) >= HostNeeds
DevCanStep  == ~DevDone /\ Len(h2d) >= DevNeeds

\* Both operations have returned to their callers.
Completed == HostDone /\ DevDone

\* C1 (read round trip).  In a run without fault of prom_read_binary
\* against receive_ll_crc, for every length: the transfer goes on until
\* both sides have returned, the programmer returns RC_SUCCESS, the host
\* returns len, and its buffer holds, in order, the len bytes the programmer
\* read from addr on.
C1_ReadRoundTrip ==
    (inp.op = "read" /\ ~flt.any) =>
        /\ Completed \/ HostCanStep \/ DevCanStep
        /\ DevDone => dev.rc = FW_RC_SUCCESS
        /\ host.pc \in {"rx_ret", "done"} =>
              /\ host.ret = inp.len
              /\ host.buf = SrcBytes(inp.addr, inp.len)

\* A read longer than the programmer's window has completed without fault.
C1_Witness ==
    /\ inp.op = "read" /\ ~flt.any /\ Completed
    /\ inp.len > DEV_CAP * DATA_CRC_INTERVAL
    /\ host.ret = inp.len

\* C2 (write round trip).  In a run without fault of send_ll_crc against
\* prom_write_binary, for every length and every alignment of addr: the
\* transfer goes on until both sides have returned, both return success,
\* every prom_write succeeds and starts where the previous one ended (the
\* first at addr), and the buffers written so far, concatenated, are the
\* leading bytes of the data - all of it once the programmer has returned.
C2_WriteRoundTrip ==
    (inp.op = "write" /\ ~flt.any) =>
        /\ Completed \/ HostCanStep \/ DevCanStep
        /\ host.pc \in {"tx_ret", "done"} => host.ret = 0
        /\ \A i \in 1..Len(prom) :
              /\ prom[i].ok
              /\ prom[i].addr
                   = inp.addr + Len(Written(SubSeq(prom, 1, i - 1)))
        /\ Written(prom) = SrcBytes(0, Len(Written(prom)))
        /\ DevDone => /\ dev.rc = FW_RC_SUCCESS
                      /\ Written(prom) = SrcBytes(0, inp.len)

\* An unaligned write of several chunks has completed without fault, its
\* first buffer shortened to end at the 128-byte boundary.
C2_Witness ==
    /\ inp.op = "write" /\ ~flt.any /\ Completed
    /\ inp.addr % DEV_WBUF # 0
    /\ inp.len > HOST_CAP * DATA_CRC_INTERVAL
    /\ Len(prom[1].data) = DEV_WBUF - (inp.addr % DEV_WBUF)
    /\ host.ret = 0

\* Checkpoint CRCs a sender has emitted less acknowledgment bytes it has
\* consumed.
Outstanding(log) == Len(Events(log, "crc")) - Len(Consumed(log))

\* C3 (window bound).  At every instant of every transfer, with or without
\* faults, the CRCs emitted and not yet acknowledged number at most 2 in
\* send_ll_crc and at most 4 in prom_read_binary, the CRC of a trailing
\* partial chunk included.
C3_WindowBound ==
    /\ inp.op = "write" => Outstanding(hlog) <= HOST_CAP
    /\ inp.op = "read" => Outstanding(dlog) <= DEV_CAP

\* The programmer has consumed an acknowledgment with its window full and
\* then emitted the CRC of a trailing partial chunk, which fills the
\* window again.
C3_Witness ==
    /\ inp.op = "read"
    /\ dev.pc = "rd_drain"
    /\ dev.crc_next # DATA_CRC_INTERVAL
    /\ Len(Consumed(dlog)) > 0
    /\ Outstanding(dlog) = DEV_CAP

\* The source offset of the first byte of the transfer.
Base == IF inp.op = "read" THEN inp.addr ELSE 0
Bases == {0} \cup Addrs("read")

\* The ends of the checkpoint intervals and of the transfers.
Marks ==
    {k * DATA_CRC_INTERVAL : k \in 0..(DEV_CAP + MaxExtra)}
    \cup Lens("read") \cup Lens("write")

\* The leading n bytes of the image at each mark, and crc32(0, .) of them
\* computed in one pass over all n bytes.
ImagePrefix == [base \in Bases |-> [n \in Marks |-> SrcBytes(base, n)]]
ImageCrc ==
    [base \in Bases |-> [n \in Marks |-> crc32(CrcZero, ImagePrefix[base][n])]]

\* crc32(0, b) in one pass: looked up when b is a tabulated prefix of the
\* image, computed otherwise.
Crc0(b) ==
    IF Len(b) \in Marks /\ b = ImagePrefix[Base][Len(b)]
    THEN ImageCrc[Base][Len(b)]
    ELSE crc32(CrcZero, b)

\* The last (up to) 8 bytes of a sequence.
Last8(b) == SubSeq(b, IF Len(b) > 8 THEN Len(b) - 7 ELSE 1, Len(b))

\* crc32 is incremental at seed s over the bytes b, wherever b is split,
\* and leaves the seed alone when given no byte.
Incremental(s, b) ==
    /\ \A h \in 0..Len(b) :
          crc32(crc32(s, SubSeq(b, 1, h)), SubSeq(b, h + 1, Len(b)))
            = crc32(s, b)
    /\ crc32(s, <<>>) = s

\* C4 (cumulative CRC).  crc32(crc32(s, A), B) = crc32(s, A followed by B)
\* and crc32(s, empty) = s, at the seeds that occur in transfers; every CRC
\* a sender has emitted is crc32(0, all payload bytes up to its checkpoint)
\* computed in one pass; and the CRC a receiver is about to compare with a
\* received field is crc32(0, all payload bytes it has received), although
\* the bytes were folded chunk by chunk (host) or byte by byte (programmer).
C4_CumulativeCrc ==
    /\ \A i \in 1..Len(SenderLog) :
          SenderLog[i].kind = "crc" =>
              /\ SenderLog[i].n \in Marks
              /\ SenderLog[i].val = ImageCrc[Base][SenderLog[i].n]
    /\ host.pc = "rx_crc" =>
          /\ host.crc = Crc0(host.buf)
          /\ Incremental(host.crc, Last8(host.buf))
    /\ host.pc = "tx_window" =>
          Incremental(host.crc, Last8(SrcBytes(0, host.pos)))
    /\ (inp.op = "write" /\ DevNeeds = 4) =>
          /\ dev.crc = Crc0(Written(prom) \o dev.buf)
          /\ Incremental(dev.crc, Last8(dev.buf))

\* Both sides of a read have agreed on a second checkpoint, whose CRC was
\* computed from the seed the first one left.
C4_Witness ==
    /\ inp.op = "read"
    /\ Len(Events(dlog, "crc")) >= 2
    /\ Len(SelectSeq(hlog, LAMBDA e : e.kind = "crc" /\ e.val.what = "match")) >= 2
    /\ host.crc # CrcZero

\* ceil(len / 256), and the payload length of chunk i of a transfer.
NChunks(len) == (len + DATA_CRC_INTERVAL - 1) \div DATA_CRC_INTERVAL
ChunkSize(len, i) ==
    IF i * DATA_CRC_INTERVAL <= len THEN DATA_CRC_INTERVAL
    ELSE len % DATA_CRC_INTERVAL

\* The payload lengths a log records, in order.
Sizes(log) ==
    [i \in 1..Len(Events(log, "data")) |-> Events(log, "data")[i].n]

\* The sender has returned success to its caller.
SenderSuccess ==
    IF inp.op = "read" THEN DevDone /\ dev.rc = FW_RC_SUCCESS
    ELSE host.pc \in {"tx_ret", "done"} /\ host.ret = 0

\* C5 (chunking).  The chunks a sender emits are the first of ceil(len/256)
\* chunks of 256 payload bytes each, the last one of len mod 256 bytes when
\* that is not zero; a sender that gets to the end has emitted all of them
\* and as many CRCs, the last of which is crc32(0, all len bytes); and when
\* a run without fault has completed, the receiver has issued exactly
\* ceil(len/256) acknowledgment bytes, all zero.
C5_Chunking ==
    LET sizes == Sizes(SenderLog)
        crcs  == Events(SenderLog, "crc")
        acks  == Events(ReceiverLog, "ack")
    IN  /\ Len(sizes) <= NChunks(inp.len)
        /\ \A i \in 1..Len(sizes) : sizes[i] = ChunkSize(inp.len, i)
        /\ Len(crcs) <= Len(sizes)
        /\ SenderSuccess =>
              /\ Len(sizes) = NChunks(inp.len)
              /\ Len(crcs) = NChunks(inp.len)
              /\ inp.len > 0 =>
                    crcs[Len(crcs)].val = crc32(CrcZero, Image)
        /\ (~flt.any /\ Completed) =>
              /\ Len(acks) = NChunks(inp.len)
              /\ \A i \in 1..Len(acks) : acks[i].val = 0

\* The 1000-byte read has completed without fault: chunks of 256, 256, 256
\* and 232 bytes, four acknowledgments.
C5_Witness ==
    /\ inp.op = "read" /\ inp.len = 1000
    /\ ~flt.any /\ Completed
    /\ Sizes(dlog) = <<256, 256, 256, 232>>
    /\ Len(Events(hlog, "ack")) = 4

\* What a sender has put on the wire, in order.
Emitted(log) ==
    SelectSeq(log, LAMBDA e : e.kind \in {"status", "data", "crc"})

\* C6 (wire format).  In both directions every chunk goes onto the wire as
\* one status byte, then its 0..256 payload bytes, then the CRC, in that
\* order, and in a completed run without fault the receiver has answered
\* every chunk with one acknowledgment byte.
C6_WireFormat ==
    LET w == Emitted(SenderLog)
    IN  /\ \A i \in 1..Len(w) :
              /\ w[i].kind = "status" =>
                    w[i].n = 1 /\ (i = 1 \/ w[i - 1].kind = "crc")
              /\ w[i].kind = "data" =>
                    /\ i > 1 /\ w[i - 1].kind = "status"
                    /\ w[i].n \in 0..DATA_CRC_INTERVAL
              /\ w[i].kind = "crc" => i > 1 /\ w[i - 1].kind = "data"
        /\ (~flt.any /\ Completed) =>
              Len(Events(ReceiverLog, "ack")) = Len(Events(SenderLog, "crc"))

\* The format above in the read direction only, where the code has it.
C6_ReadFormat == inp.op = "read" => C6_WireFormat

\* A receiver has answered entry i of its log, a check_crc, as the protocol
\* says: the next entry is the acknowledgment, 0 exactly when the field
\* equals the local CRC, and no second acknowledgment follows it.
Answered(log, i) ==
    /\ i < Len(log)
    /\ log[i + 1].kind = "ack"
    /\ log[i + 1].val = 0 <=> log[i].val.field = log[i].val.crc
    /\ i + 2 <= Len(log) => log[i + 2].kind # "ack"

\* The entries of a receiver's log where a complete CRC field was read.
FieldsRead(log) ==
    {i \in 1..Len(log) : log[i].kind = "crc" /\ log[i].n = 4}

Diagnosed(e) == inp.op = "read" /\ e.val.what = "diagnostic"

Verified(log) ==
    SelectSeq(log, LAMBDA e : e.kind = "crc" /\ e.n = 4 /\ e.val.what = "match")

\* The link went silent on the host in front of a CRC: its last receive,
\* for a status byte or for a CRC field, brought no byte at all.
SilentBeforeCrc ==
    /\ inp.op = "read"
    /\ flt.kind = "sever"
    /\ host.pc \in {"rx_ret", "done"}
    /\ hlog # <<>>
    /\ hlog[Len(hlog)].kind \in {"status", "crc"}
    /\ hlog[Len(hlog)].n = 0

\* C8 as stated (partial transfer).  When the link is severed after k
\* complete chunks and no byte of the CRC of chunk k+1 arrives - the
\* silence starting before its status byte, inside its payload or after
\* its payload - receive_ll_crc returns exactly k * 256.
C8_ExactlyVerified ==
    SilentBeforeCrc =>
        host.ret = Len(Verified(hlog)) * DATA_CRC_INTERVAL

\* C8 (partial transfer), the part every reading of it includes: in the
\* same situation receive_ll_crc returns no more than k * 256, whatever it
\* returns for a silence in front of a status byte.
C8_NeverMore ==
    SilentBeforeCrc =>
        host.ret <= Len(Verified(hlog)) * DATA_CRC_INTERVAL

\* C9 (complete only if verified).  receive_ll_crc returns buflen only if
\* it has read the CRC field of every chunk, the last included, and found
\* each equal to its cumulative CRC; and eeprom_read reports the bytes as
\* read ("Read 0x%x bytes") only in that case.
C9_CompleteOnlyIfVerified ==
    inp.op = "read" =>
        /\ (host.pc \in {"rx_ret", "done"} /\ host.ret = inp.len) =>
              Len(Verified(hlog)) = NChunks(inp.len)
        /\ (HostDone /\ host.report = "read") =>
              Len(Verified(hlog)) = NChunks(inp.len)

\* The acknowledgment bytes a receiver has issued in answer to a CRC, in
\* order.
Answers(log) ==
    LET at == SelectSeq([i \in 1..Len(log) |-> i],
                        LAMBDA i : /\ i > 1
                                   /\ log[i].kind = "ack"
                                   /\ log[i - 1].kind = "crc")
    IN  [j \in 1..Len(at) |-> log[at[j]]]

\* The position of entry number j of a kind in a log.
IndexOf(log, kind, j) ==
    CHOOSE i \in 1..Len(log) :
        /\ log[i].kind = kind
        /\ Len(Events(SubSeq(log, 1, i), kind)) = j

\* The sender's window: its ring of checkpoint positions.
SenderRing == IF inp.op = "read" THEN dev ELSE host
SenderRuns ==
    IF inp.op = "read" THEN dev.pc \in {"rd_loop", "rd_window", "rd_drain"}
    ELSE host.pc \in {"tx_loop", "tx_window"}

SenderReturned ==
    IF inp.op = "read" THEN DevDone ELSE host.pc \in {"tx_ret", "done"}

\* C11 (dropped acknowledgment).  In a run where one acknowledgment byte of
\* the receiver is lost in transit, the sender never returns success, and
\* the CRCs it has sent and not seen acknowledged never exceed its window
\* (2 for send_ll_crc, 4 for prom_read_binary).
C11_DroppedAck ==
    flt.kind = "drop" =>
        /\ ~SenderSuccess
        /\ Outstanding(SenderLog) <= Cap(inp.op)

\* After the loss of an acknowledgment the programmer, sender of a read
\* longer than its window, has waited for the missing byte with a window
\* that was full, has timed out in check_rc and has returned RC_FAILURE.
C11_Witness ==
    /\ inp.op = "read"
    /\ flt.kind = "drop"
    /\ DevDone /\ dev.rc = FW_RC_FAILURE
    /\ dlog[Len(dlog)] = Ev("rc", 0, "timeout")
    /\ Len(Events(dlog, "crc")) > DEV_CAP

\* CRCs sent less acknowledgments consumed in the first i entries of a
\* sender's log.
OutstandingAt(log, i) == Outstanding(SubSeq(log, 1, i))

\* C12 as stated (ordering at a full window).  A sender whose window is at
\* capacity consumes the oldest pending acknowledgment before it emits any
\* byte, status or payload, of the next chunk.
C12_AckBeforeNextChunk ==
    \A i \in 1..Len(SenderLog) :
        SenderLog[i].kind \in {"status", "data"} =>
            OutstandingAt(SenderLog, i - 1) < Cap(inp.op)

\* C12 as amended.  A sender whose window is at capacity consumes the
\* oldest pending acknowledgment before it emits the CRC of the next
\* chunk; the status byte and the payload of that one chunk go out first,
\* and nothing else does.
C12_AckBeforeNextCrc ==
    \A i \in 1..Len(SenderLog) :
        LET e    == SenderLog[i]
            full == OutstandingAt(SenderLog, i - 1) >= Cap(inp.op)
            last == i = Len(SenderLog)
        IN  /\ e.kind = "crc" => ~full
            /\ (full /\ e.kind = "status") =>
                  last \/ SenderLog[i + 1].kind = "data"
            /\ (full /\ e.kind = "data") =>
                  last \/ SenderLog[i + 1].kind = "rc"

\* The host, sender of a write, has put a payload on the wire with its
\* window full, has then taken the oldest acknowledgment and has sent the
\* CRC of that payload.
C12_Witness ==
    /\ inp.op = "write"
    /\ \E i \in 1..(Len(hlog) - 2) :
          /\ hlog[i].kind = "data"
          /\ OutstandingAt(hlog, i - 1) = HOST_CAP
          /\ hlog[i + 1] = Ev("rc", 1, 0)
          /\ hlog[i + 2].kind = "crc"

\* C13 (nonzero status ends a read).  When prom_read fails,
\* prom_read_binary sends the nonzero status byte and returns it: the
\* status is the last thing it puts on the wire, no payload, CRC or chunk
\* follows.  The host, reading a nonzero status byte, returns -1 at once:
\* it stores no payload of that chunk and sends no acknowledgment.
C13_NonzeroStatusEndsRead ==
    inp.op = "read" =>
        /\ flt.kind = "backend" =>
              /\ DevDone /\ dev.rc = FW_RC_FAILURE
              /\ dlog[Len(dlog)] = Ev("status", 1, FW_RC_FAILURE)
        /\ \A i \in 1..Len(dlog) :
              (dlog[i].kind = "status" /\ dlog[i].val # 0) =>
                  i = Len(dlog) /\ DevDone /\ dev.rc = dlog[i].val
        /\ \A i \in 1..Len(hlog) :
              (hlog[i].kind = "status" /\ hlog[i].n = 1 /\ hlog[i].val # 0) =>
                  /\ i = Len(hlog)
                  /\ host.pc \in {"rx_ret", "done"}
                  /\ host.ret = -1
                  /\ Len(host.buf) = host.pos
                  /\ Len(Events(hlog, "ack")) = Len(Events(hlog, "crc"))

\* prom_read has failed on a later chunk of a read: the host has verified
\* the chunks before it, has read the nonzero status and has returned -1.
C13_Witness ==
    /\ inp.op = "read"
    /\ flt.kind = "backend"
    /\ HostDone /\ host.ret = -1
    /\ Len(Verified(hlog)) >= 1
    /\ hlog[Len(hlog)] = Ev("status", 1, FW_RC_FAILURE)

\* The entries of the host's log where check_crc read the four bytes
\* 0x20202020 in the CRC position.
SentinelsRead ==
    {i \in FieldsRead(hlog) : inp.op = "read" /\ hlog[i].val.field = SENTINEL}

IsFailureMessage(t) == Len(t) > 2 /\ t[1] = 32 /\ t[2] = 32

C15_ResultCodes ==
    (inp.op = "write" /\ host.pc \in {"tx_ret", "done"}) =>
        /\ host.ret = 0 =>
              /\ Len(Events(hlog, "crc")) = NChunks(inp.len)
              /\ Len(Consumed(hlog)) = NChunks(inp.len)
              /\ \A j \in 1..Len(Consumed(hlog)) : Consumed(hlog)[j].val = 0
        /\ \A i \in 1..Len(hlog) :
              hlog[i].kind = "rc" =>
                  /\ hlog[i].n = 0 => i = Len(hlog) /\ host.ret = 1
                  /\ (hlog[i].n = 1 /\ hlog[i].val # 0) =>
                        i = Len(hlog) /\ host.ret = 2

\* The offset in the data of the first byte of prom_write call i.
WriteStart(i) == Len(Written(SubSeq(prom, 1, i - 1)))

\* C16 (acknowledgment covers the write).  In a write the programmer sends
\* the acknowledgment of a checkpoint only after prom_write has written,
\* with success, every byte up to that checkpoint: a prom_write call made
\* after j acknowledgments writes bytes beyond checkpoint j.  So when
\* send_ll_crc has returned 0, no prom_write of the transfer has failed,
\* and once the programmer has returned as well all len bytes are written.
C16_AckCoversWrite ==
    inp.op = "write" =>
        /\ \A i \in 1..Len(prom) :
              prom[i].acked * DATA_CRC_INTERVAL <= WriteStart(i)
        /\ (host.pc \in {"tx_ret", "done"} /\ host.ret = 0) =>
              /\ \A i \in 1..Len(prom) : prom[i].ok
              /\ DevDone => Len(Written(prom)) = inp.len

\* The second half alone: success of send_ll_crc implies success of every
\* prom_write.
C16_SuccessImpliesWritten ==
    (inp.op = "write" /\ host.pc \in {"tx_ret", "done"} /\ host.ret = 0) =>
        \A i \in 1..Len(prom) : prom[i].ok

\* The payload bytes the receiver has taken so far, and its cumulative CRC.
ReceivedBytes == IF inp.op = "read" THEN host.buf ELSE Written(prom) \o dev.buf
ReceiverCrc   == IF inp.op = "read" THEN host.crc ELSE dev.crc

\* The offsets at which a transfer of len bytes has a checkpoint.
Checkpoints(len) ==
    {j * DATA_CRC_INTERVAL : j \in 1..(len \div DATA_CRC_INTERVAL)}
    \cup (IF len % DATA_CRC_INTERVAL # 0 THEN {len} ELSE {})

\* One payload byte was altered on its way to the receiver, which has
\* reached the next checkpoint and is about to read the CRC field.
PayloadAltered ==
    /\ flt.kind = "corrupt"
    /\ IF inp.op = "read" THEN host.pc = "rx_crc" ELSE DevNeeds = 4
    /\ ReceivedBytes # SrcBytes(Base, Len(ReceivedBytes))

\* C17 (CRC error propagation).  When one payload byte has arrived altered,
\* all other bytes intact, the receiver's cumulative CRC differs from the
\* sender's at the checkpoint that covers the byte and at every later
\* checkpoint of the transfer: folding the remaining bytes of the image
\* into the receiver's CRC never gives the CRC the sender emits there.
C17_CrcErrorPropagates ==
    PayloadAltered =>
        LET n == Len(ReceivedBytes)
        IN  \A m \in Checkpoints(inp.len) :
                m >= n =>
                    crc32(ReceiverCrc, SrcBytes(Base + n, m - n))
                      # ImageCrc[Base][m]

\* A byte of the first chunk of a read of several chunks has arrived
\* altered; the host has folded the chunk and its CRC is not the one the
\* programmer has sent for it.
C17_Witness ==
    /\ inp.op = "read"
    /\ PayloadAltered
    /\ Len(host.buf) = DATA_CRC_INTERVAL
    /\ inp.len > DEV_CAP * DATA_CRC_INTERVAL
    /\ Len(d2h) >= 4
    /\ CrcFromWire(Take(d2h, 4)) = ImageCrc[Base][DATA_CRC_INTERVAL]
    /\ host.crc # CrcFromWire(Take(d2h, 4))

\* Neither the producer nor the consumer is inside a call.
RbQuiet == rb.put.pc = "idle" /\ rb.get.pc = "idle"

\* The number of bytes the ring holds: accepted by put, not yet returned
\* by get.
RbHeld == Len(rb.accepted) - Len(rb.returned)

\* C18 (ring invariant).  After any sequence of put and get both cursors
\* are in [0, size); between calls the ring holds, from the consumer
\* cursor on, the bytes accepted and not yet returned, in order; it is
\* empty iff producer = consumer, full (size - 1 bytes) iff
\* (producer + 1) mod size = consumer, and never holds more.
C18_RingInvariant ==
    /\ rb.producer \in 0..(RingSize - 1)
    /\ rb.consumer \in 0..(RingSize - 1)
    /\ RbQuiet =>
          /\ RbHeld \in 0..(RingSize - 1)
          /\ RbHeld = 0 <=> rb.producer = rb.consumer
          /\ RbHeld = RingSize - 1
                <=> (rb.producer + 1) % RingSize = rb.consumer
          /\ \A j \in 1..RbHeld :
                rb.buf[(rb.consumer + j - 1) % RingSize]
                  = rb.accepted[Len(rb.returned) + j]

\* Between calls the ring is full and its content wraps around the end of
\* the array.
C18_Witness ==
    /\ RbQuiet
    /\ RbHeld = RingSize - 1
    /\ rb.producer < rb.consumer
    /\ Len(rb.returned) > 0

\* The bytes get has returned are the first of the bytes put has accepted,
\* in the order of the puts.
RbFifo ==
    /\ Len(rb.returned) <= Len(rb.accepted)
    /\ rb.returned = SubSeq(rb.accepted, 1, Len(rb.returned))

C19_FifoInProgramOrder == ~rb.reordered => RbFifo

\* C20 (failure leaves the ring unchanged).  A put that finds the ring
\* full returns 1 and changes neither a cursor nor a stored byte; a get
\* that finds the ring empty returns -1 and changes neither cursor.
C20_FailureLeavesRing ==
    [][/\ (/\ rb.put.pc = "check"
           /\ rb'.put.pc # "check"
           /\ (rb.producer + 1) % RingSize = rb.consumer) =>
              /\ rb'.put.pc = "idle" /\ rb'.put.ret = 1
              /\ rb'.buf = rb.buf
              /\ rb'.producer = rb.producer /\ rb'.consumer = rb.consumer
              /\ rb'.accepted = rb.accepted
       /\ (/\ rb.get.pc = "idle"
           /\ rb'.get # rb.get
           /\ rb.producer = rb.consumer) =>
              /\ rb'.get.pc = "idle" /\ rb'.get.ret = -1
              /\ rb'.buf = rb.buf
              /\ rb'.producer = rb.producer /\ rb'.consumer = rb.consumer
              /\ rb'.returned = rb.returned]_vars

\* A put has just failed on the full ring, which still holds the bytes
\* accepted before, after a get had failed on the empty ring.
C20_Witness ==
    /\ RbQuiet
    /\ rb.put.ret = 1
    /\ rb.get.ret = -1
    /\ (rb.producer + 1) % RingSize = rb.consumer
    /\ RbHeld = RingSize - 1

(***************************************************************************)
(* Properties of send_ll_bin                                               *)
(***************************************************************************)

\* C21 (bounded enqueue retry).  send_ll_bin puts the bytes of the block
\* into the transmit ring in order; it returns 1 only after more than 500
\* failed attempts in a row on the same byte, and then exactly the bytes
\* before the failing position have been enqueued; otherwise it returns 0
\* with every byte of the block enqueued exactly once.
C21_BoundedEnqueueRetry ==
    /\ snd.fails <= SEND_RETRIES + 1
    /\ snd.pos <= Len(snd.data)
    /\ snd.pc # "put" => rb.accepted = SubSeq(snd.data, 1, snd.pos)
    /\ snd.pc = "done" =>
          /\ snd.ret \in {0, 1}
          /\ snd.ret = 1 => /\ snd.fails > SEND_RETRIES
                            /\ snd.pos < Len(snd.data)
          /\ snd.ret = 0 => /\ snd.pos = Len(snd.data)
                            /\ rb.accepted = snd.data

\* send_ll_bin has given up on a byte after the writer thread had taken
\* bytes from the ring, and has enqueued the bytes before it.
C21_Witness ==
    /\ snd.pc = "done"
    /\ snd.ret = 1
    /\ snd.pos > 0
    /\ Len(rb.returned) > 0
    /\ snd.fails = SEND_RETRIES + 1

(***************************************************************************)
(* Termination                                                             *)
(***************************************************************************)

\* The transfer with both sides scheduled: a side that can take a step
\* eventually takes one.  The faults of the link are not forced to happen.
\* The transfers are those that fill the window of their sender: one
\* checkpoint interval and a byte more than the window holds.
LiveLens(op) == {Cap(op) * DATA_CRC_INTERVAL + 1}

LiveInit ==
    \E op \in {"read", "write"} : \E n \in LiveLens(op) :
        /\ inp  = [op |-> op, addr |-> DEV_WBUF - 1, len |-> n]
        /\ host = HostInit(op)
        /\ dev  = DevInit(op, DEV_WBUF - 1, n)
        /\ d2h  = <<>>
        /\ h2d  = <<>>
        /\ flt  = [any |-> FALSE, severed |-> FALSE, kind |-> "none"]
        /\ hlog = <<>>
        /\ dlog = <<>>
        /\ prom = <<>>
        /\ rb   = RbInit
        /\ snd  = SndInit(<<>>)
        /\ mx   = MxStart(FALSE, 0)
        /\ wft  = WftInit
        /\ thr  = ThrInit
        /\ cons = ConsInit

LiveSpec == LiveInit /\ [][Next]_vars /\ WF_vars(Protocol)

\* C22 (termination under timeouts).  Every execution of a transfer ends
\* with both operations returned to their callers, whatever the link
\* does, including when a side never receives another byte.
C22_Terminates == <>Completed

\* Both sides have returned after the link was severed.
C22_Witness == Completed /\ flt.severed

(***************************************************************************)
(* Cancellation                                                            *)
(***************************************************************************)

\* C23 (cancellation).  An abort request made while the chunk loop of a
\* transfer has an iteration to go is seen by that loop: the operation of
\* the programmer sends a nonzero status and returns a failure.
C23_AbortEndsTransfer ==
    (abort_pending /\ DevDone) =>
        /\ dev.rc # FW_RC_SUCCESS
        /\ \E i \in 1..Len(dlog) :
              dlog[i].kind \in {"status", "ack"} /\ dlog[i].val # 0

\* The same for prom_write_binary alone, whose backend call polls the
\* button.
C23_AbortEndsWrite ==
    (inp.op = "write" /\ abort_pending /\ DevDone) =>
        /\ dev.rc # FW_RC_SUCCESS
        /\ \E i \in 1..Len(dlog) : dlog[i].kind = "ack" /\ dlog[i].val # 0

(***************************************************************************)
(* Backend calls                                                           *)
(***************************************************************************)

\* The prom_read calls of a read, in order.
Reads == Events(dlog, "read")

\* The number of 128-byte-aligned buffers the range [addr, addr + len)
\* extends over.
Buffers(addr, len) ==
    IF len = 0 THEN 0
    ELSE (addr + len - 1) \div DEV_WBUF - addr \div DEV_WBUF + 1

\* C24 as stated (backend invocation granularity).  The backend is invoked
\* exactly once per 256-byte chunk in both directions: a completed read of
\* len bytes has made ceil(len / 256) prom_read calls and a completed write
\* of len bytes has made ceil(len / 256) prom_write calls.
C24_OncePerChunk ==
    (Completed /\ ~flt.any) =>
        /\ inp.op = "read" => Len(Reads) = NChunks(inp.len)
        /\ inp.op = "write" => Len(prom) = NChunks(inp.len)

\* C24 (backend invocation granularity).  prom_read_binary calls prom_read
\* exactly once for each chunk it sends, for the bytes of that chunk;
\* prom_write_binary calls prom_write once for each buffer of at most 128
\* bytes that ends at a 128-byte boundary of the address or at the end of
\* the data, which is more than once per 256-byte chunk.
C24_BackendGranularity ==
    /\ \A k \in 1..Len(Reads) :
          /\ k <= NChunks(inp.len)
          /\ Reads[k].n = ChunkSize(inp.len, k)
          /\ Reads[k].val = inp.addr + (k - 1) * DATA_CRC_INTERVAL
    /\ inp.op = "read" =>
          /\ Len(Events(dlog, "data")) <= Len(Reads)
          /\ Len(Reads) <= Len(Events(dlog, "data")) + 1
          /\ (Completed /\ ~flt.any) => Len(Reads) = NChunks(inp.len)
    /\ \A i \in 1..Len(prom) :
          /\ prom[i].addr = inp.addr + WriteStart(i)
          /\ Len(prom[i].data)
               = Min(inp.len - WriteStart(i),
                     DEV_WBUF - (prom[i].addr % DEV_WBUF))
    /\ inp.op = "write" =>
          /\ Len(prom) <= Buffers(inp.addr, inp.len)
          /\ (Completed /\ ~flt.any) =>
                Len(prom) = Buffers(inp.addr, inp.len)

\* A write has completed with more prom_write calls than chunks, the first
\* of them shorter than the buffer.
C24_Witness ==
    /\ inp.op = "write"
    /\ Completed /\ ~flt.any
    /\ Len(prom) > NChunks(inp.len) + 1
    /\ Len(prom[1].data) < DEV_WBUF

(***************************************************************************)
(* Properties of the I/O threads                                           *)
(***************************************************************************)

\* C26 (writer batching and pacing).  Without a pacing delay the writer
\* thread calls write() only when it found the transmit ring empty with
\* bytes batched, or with 64 bytes batched, and never with more than 64
\* bytes; with a pacing delay, and no failed attempt since its previous
\* call, it passes at most one byte per call and sleeps the pacing delay
\* after the call.
C26_BatchingAndPacing ==
    thr.last.n >= 0 =>
        /\ thr.last.n <= WRITE_BATCH
        /\ thr.ic_delay = 0 =>
              /\ thr.last.n > 0
              /\ thr.last.empty \/ thr.last.n = WRITE_BATCH
              /\ thr.last.slept = 0
        /\ (thr.ic_delay # 0 /\ thr.last.clean) =>
              /\ thr.last.n <= 1
              /\ thr.last.slept = thr.ic_delay

\* Without pacing the writer thread has just passed a full batch to
\* write() although the ring was not empty.
C26_Witness ==
    /\ thr.ic_delay = 0
    /\ thr.last.n = WRITE_BATCH
    /\ ~thr.last.empty
    /\ thr.last.clean

\* The reader thread is in the loop around rx_rb_put and the ring is full.
ReaderRetrying ==
    /\ thr.rd.pc = "put"
    /\ rb_full(rb_next(thr.rx.producer), thr.rx.consumer)

\* C25 (reader on a full receive ring).  A reader thread that finds the
\* receive ring full retries a bounded number of times only and then goes
\* on: it does not stay in the retry loop for ever, whether or not the
\* main thread takes bytes from the ring.
C25_ReaderNeverBlocks == ReaderRetrying ~> ~ReaderRetrying

\* The writer thread has nothing left to write: tx_rb and its batch are
\* empty.
WriterIdle ==
    /\ rb_empty(thr.tx.consumer, thr.tx.producer)
    /\ thr.wr.pos = 0

ThrIdle ==
    /\ rb_empty(thr.rx.consumer, thr.rx.producer)
    /\ rb_empty(thr.tx.consumer, thr.tx.producer)
    /\ thr.wr.pos = 0
    /\ thr.rd.pc # "put"

\* A step of a disconnect / reopen cycle: the device goes or comes back,
\* read() fails, reopen_dev tries to open, the writer thread makes a pass.
ReopenCycleStep ==
    \/ dev_unplug
    \/ dev_plug
    \/ th_serial_reader_read /\ thr'.rd.pc = "reopen"
    \/ reopen_dev
    \/ th_serial_writer

\* C28 (idempotent reopen).  A step of a disconnect / reopen cycle taken
\* while the host is idle leaves the host idle and changes neither ring
\* (contents and both cursors), nor the batch of the writer thread, nor the
\* pacing delay: what a transfer started afterwards finds is what it would
\* have found without the cycle.
C28_IdempotentReopen ==
    [][(ThrIdle /\ ReopenCycleStep) =>
          /\ ThrIdle'
          /\ thr'.rx = thr.rx
          /\ thr'.tx = thr.tx
          /\ thr'.wr.lbuf = thr.wr.lbuf
          /\ thr'.wr.pos = thr.wr.pos
          /\ thr'.ic_delay = thr.ic_delay]_vars

\* The host is idle after traffic in both directions (the cursors of both
\* rings have moved), the device has gone and come back, and reopen_dev
\* has stored the new descriptor.
C28_Witness ==
    /\ ThrIdle
    /\ thr.rx.producer > 0
    /\ thr.tx.producer > 0
    /\ thr.conn > 1
    /\ fd_works(thr)
    /\ thr.rd.pc = "read"

\* The bytes the console ring holds, from the consumer cursor up to the
\* producer cursor.
ConsHeld ==
    LET r == cons.ring
        n == (r.producer + RingSize - r.consumer) % RingSize
    IN  [i \in 1..n |-> r.buf[(r.consumer + i - 1) % RingSize]]

\* C29 (device producers mutually exclusive).  With the UART receive
\* interrupt and cdcacm_rx_cb both feeding the console ring, whenever
\* cdcacm_rx_cb is not running the bytes getchar has returned, followed by
\* the bytes the ring holds, are the bytes the two producers stored, in
\* the order of their stores: none lost, none overwritten, none out of
\* order.
C29_ProducersExclusive ==
    cons.cb.pc = "idle" => cons.got \o ConsHeld = cons.stored

\* The UART receive interrupt never runs cons_rb_put while cdcacm_rx_cb is
\* between reading and advancing the producer cursor.
C29_NeverConcurrent == ~cons.overlap

\* The same where it does hold: as long as the UART interrupt has not come
\* in between the entry of a cons_rb_put of cdcacm_rx_cb and its stores.
C29_IntactWithoutOverlap ==
    (~cons.overlap /\ cons.cb.pc = "idle")
        => cons.got \o ConsHeld = cons.stored

\* C30 (getchar).  A call of getchar that finds the console ring empty
\* returns 0.
C30_GetcharEmptyReturnsZero ==
    (cons.gc.called /\ cons.gc.empty) => cons.gc.ret = 0

\* What getchar does return: -1 iff the ring was empty, else the byte at
\* the consumer cursor.
C30_GetcharEmptyReturnsMinusOne ==
    cons.gc.called => (cons.gc.empty <=> cons.gc.ret = -1)

(***************************************************************************)
(* Properties of the write path of the programmer                          *)
(***************************************************************************)

\* The checkpoints of the write that the programmer has verified.
DevVerified == Len(Verified(dlog))

\* The programmer has ended the write at a checkpoint whose CRC did not
\* arrive or did not match.
DevCrcFailed ==
    /\ inp.op = "write"
    /\ \E i \in 1..Len(dlog) :
          dlog[i].kind = "crc" /\ dlog[i].val.what # "match"

Bytes(seq) == {seq[i] : i \in 1..Len(seq)}

\* No byte occurs twice in a sequence.
NoRepeat(seq) == \A i, j \in 1..Len(seq) : seq[i] = seq[j] => i = j

C33_MaskingBalanced ==
    mx.masked => mx.pc \in {"loaded", "e_loaded", "reading"}

\* The USB interrupt is in use and mx_wait_for_done_status polls for the
\* end of the erase of a second sector, after the sections of the first
\* sector and of this one.
C33_Witness ==
    /\ mx.using_usb_interrupt
    /\ mx.op = "erase"
    /\ mx.pc = "wait"
    /\ mx.len = 1
    /\ mx.calls = 0
    /\ ~mx.masked

\* C34 (page verify retry).  mx_program_page is called at most three times
\* for a page; in front of call k + 1 for the page at addr try_count is k
\* (it starts at 0 for every page); a page whose read-back matched has
\* been programmed for the last time, mx_write being at a later page; and
\* when mx_write has returned 3 because the third read-back differed, no
\* later page has been programmed.
C34_PageVerifyRetry ==
    /\ \A p \in 1..MaxPages :
          /\ mx.attempts[p] <= 3
          /\ (mx.op = "write" /\ mx.matched[p]) => mx.page > p
          /\ (mx.op = "write" /\ p > mx.page) => mx.attempts[p] = 0
    /\ (mx.op = "write" /\ mx.pc = "program")
          => mx.try_count = mx.attempts[mx.page]
    /\ (mx.op = "write" /\ mx.pc \in {"loaded", "wait", "verify", "reading"})
          => mx.try_count = mx.attempts[mx.page] - 1
    /\ (mx.op = "write" /\ mx.pc = "idle" /\ mx.why = "verify")
          => /\ mx.rc = 3
             /\ mx.attempts[mx.page] = 3
             /\ ~mx.matched[mx.page]

\* mx_write has returned 3 at its first page of two after three program
\* attempts, the second page untouched.
C34_Witness ==
    /\ mx.op = "write"
    /\ mx.pc = "idle"
    /\ mx.why = "verify"
    /\ mx.rc = 3
    /\ mx.page = 1
    /\ mx.count = MaxPages
    /\ mx.attempts[1] = 3
    /\ mx.attempts[2] = 0

(***************************************************************************)
(* Properties of the console output                                        *)
(***************************************************************************)

\* C35 (one transport per transfer).  Everything a transfer emits through
\* puts_binary goes out on the transport its command arrived on: nothing
\* is put out on the UART in a transfer that arrived over USB, and nothing
\* is handed to the USB endpoint in one that arrived on the UART, whatever
\* arrives on the other transport meanwhile.
C35_OneTransport ==
    /\ cons.out.arrived = SOURCE_USB => cons.out.uart_tx = <<>>
    /\ cons.out.arrived = SOURCE_UART => cons.out.usb_tx = <<>>

\* The same as long as nothing has arrived on the other transport.
C35_OneTransportIfQuiet ==
    cons.stored = <<>> => C35_OneTransport

\* C37 (exactly-once USB transmit).  When usb_puts_wait has returned 0 the
\* bytes handed to the USB IN endpoint during the call are the len bytes
\* of the call, each once and in order.
C37_ExactlyOnceUsb ==
    (cons.out.pc = "idle" /\ cons.out.via = "usb" /\ cons.out.ret = 0)
        => cons.out.sent = cons.out.data

\* The same for the calls in which no CDC_Transmit_FS failed after it had
\* written a packet: every failed call ended at its first packet.
C37_ExactlyOnceIfNoPartial ==
    (cons.out.pc = "idle" /\ cons.out.via = "usb" /\ cons.out.ret = 0
        /\ Len(cons.out.sent) <= Len(cons.out.data))
        => cons.out.sent = cons.out.data

\* C36 (writer thread loses no byte).  Every byte the writer thread has
\* taken from the transmit ring has been accepted by write() or is still
\* in its batch, in the order in which it was taken, whether or not dev_fd
\* was -1, write() failed or write() accepted fewer bytes than it was
\* asked to write in between; the batch index never exceeds 64.
C36_WriterLosesNoByte ==
    /\ ~thr.lost
    /\ \A i \in 1..thr.wr.pos :
          thr.wr.lbuf[i] = thr.taken[Len(thr.taken) - thr.wr.pos + i]
    /\ thr.wr.pos <= WRITE_BATCH

\* The part of C36 that holds in every run: the batch index stays within
\* lbuf and the batch holds bytes of the transmit ring in their order (the
\* main thread enqueues ascending bytes).
C36_BatchIndexBounded ==
    /\ thr.wr.pos <= WRITE_BATCH
    /\ thr.wr.pos = Len(thr.wr.lbuf)
    /\ \A i \in 1..(thr.wr.pos - 1) : thr.wr.lbuf[i] < thr.wr.lbuf[i + 1]

\* C38 (flow-control bound in the write direction).  At every instant of a
\* write the bytes the host has handed to send_ll_bin and the device has
\* not yet taken with getchar number at most three chunks and two CRCs,
\* 3 * 256 + 2 * 4 = 776, which is less than the 1023 bytes cons_in_rb can
\* hold: cons_rb_put never finds the ring full with a byte of a transfer.
C38_WriteFlowBound ==
    inp.op = "write" =>
        /\ Len(h2d) <= (HOST_CAP + 1) * DATA_CRC_INTERVAL + HOST_CAP * 4
        /\ Len(h2d) < CONS_IN_RB_SIZE - 1

\* The host has sent three chunks and two CRCs of which the device has not
\* taken a byte, and waits for the acknowledgment of the first.
C38_Witness ==
    /\ inp.op = "write"
    /\ host.pc = "tx_window"
    /\ host.cap_count = HOST_CAP
    /\ Len(h2d) = (HOST_CAP + 1) * DATA_CRC_INTERVAL + HOST_CAP * 4

\* The entries of check_crc in the log of the host of a read.
CrcChecks ==
    IF inp.op = "read"
    THEN { i \in 1..Len(hlog) : hlog[i].kind = "crc" }
    ELSE {}

\* C39 (host CRC reception is all-or-nothing).  check_crc of the host
\* reports a match (returns 0, sends status 0) only if all four bytes of
\* the CRC field were received and equal the CRC computed; a field of
\* which one to three bytes arrived before the timeout is a failure.
C39_CrcAllOrNothing ==
    \A i \in CrcChecks :
        hlog[i].val.what \in {"match", "short_match"} =>
            /\ hlog[i].n = 4
            /\ hlog[i].val.field = hlog[i].val.crc

\* The part of C39 that holds in every run: a field of four received
\* bytes is a match exactly if it equals the CRC computed, and a field of
\* which no byte arrived is a timeout.
C39_CompleteFieldCompared ==
    \A i \in CrcChecks :
        /\ hlog[i].n = 4 =>
              (hlog[i].val.what = "match") =
                  (hlog[i].val.field = hlog[i].val.crc)
        /\ hlog[i].n = 0 => hlog[i].val.what = "timeout"

\* The text occurs in the stream as a contiguous run of bytes.
Occurs(str, rx) ==
    \E i \in 0..(Len(rx) - Len(str)) : SubSeq(rx, i + 1, i + Len(str)) = str

\* C40 (prompt matching).  wait_for_text(str, timeout) returns 0 if and
\* only if str occurs as a contiguous run of bytes in what is received
\* before the programmer falls silent, whatever precedes it: also in
\* "CCMD>" for "CMD>".
C40_PromptMatching ==
    wft.called => ((wft.ret = 0) <=> Occurs(wft.str, wft.rx))

\* The part of C40 that holds in every run: a return of 0 was preceded by
\* the text, as the last bytes taken; and a text that no byte equal to
\* its first byte precedes is found.
C40_FoundImpliesReceived ==
    wft.called =>
        LET taken == SubSeq(wft.rx, 1, Len(wft.rx) - Len(wft.left))
        IN  /\ wft.ret = 0 =>
                  /\ Len(taken) >= Len(wft.str)
                  /\ SubSeq(taken, Len(taken) - Len(wft.str) + 1, Len(taken))
                       = wft.str
            /\ \A i \in 0..(Len(wft.rx) - Len(wft.str)) :
                  (/\ SubSeq(wft.rx, i + 1, i + Len(wft.str)) = wft.str
                   /\ \A j \in 1..i : wft.rx[j] # wft.str[1])
                      => wft.ret = 0

=============================================================================
